---------------------------- MODULE Spec2Model ----------------------------
(***************************************************************************)
(* Model of the provider abstraction and fallback-retry layer of the       *)
(* technical-questions application (app/api/utils.ts), of the route        *)
(* handlers that call into it, of the topics route and of the model        *)
(* selection form.                                                         *)
(*                                                                         *)
(* Strings are TLA+ strings; positions follow JavaScript (0-based, -1 for  *)
(* "not found").  An optional value is <<>> (absent) or <<v>> (present).   *)
(* One action is one run-to-completion step of the JavaScript event loop:  *)
(* the code between two awaits that really suspend.                        *)
(***************************************************************************)
EXTENDS Integers, Sequences, FiniteSets, TLC

VARIABLES
    pc,             \* per invocation: position inside callAIProviderWithFallback
    heap,           \* per invocation: the ProviderConfig objects, index = reference
    currentConfig,  \* per invocation: reference held by `currentConfig`
    attemptCount,   \* per invocation: the local `attemptCount`
    args,           \* per invocation: the prompt and systemPrompt arguments
    calls,          \* per invocation: arguments of every adapter call made, in order
    timers,         \* per invocation: duration of every setTimeout delay set, in order
    outcome,        \* per invocation: what the adapter call last completed with
    result,         \* per invocation: what the invocation returned or threw
    req,            \* per request: the route and the JSON body posted to it
    rpc,            \* per request: position inside the route handler
    questions,      \* per request: the array extracted from the generated text
    pending,        \* per request: the parameters of the INSERT in flight
    ids,            \* per request: the ids of the rows inserted so far
    response,       \* per request: the HTTP response
    table,          \* the rows of technical_questions, in insertion order
    input,          \* the parts of the string a function is applied to
    applied,        \* the function that was applied to it, "none" before
    output,         \* what the function returned, as an optional value
    trace,          \* per invocation: the console lines and SDK answers seen by
                    \* an observer of the run, None when nobody observes it
    customTopicsFile, \* public/custom-topics.json: absent, or its customTopics
    topicPosts,     \* every POST to /api/topics so far, with its response
    component,      \* the state hooks of AIModelSelectionFiltered
    preflights,     \* every connectivity test the component started
    selections      \* the arguments of every call of onModelSelected

\* The state of the route handlers and of the database.
routeVars == <<req, rpc, questions, pending, ids, response, table>>

\* The state of a function of utils.ts or of a route applied on its own.
evalVars == <<input, applied, output>>

\* The state of the topics route: the file it keeps and what was posted.
topicVars == <<customTopicsFile, topicPosts>>

\* The state of the model selection form in the browser.
componentVars == <<component, preflights, selections>>

vars == <<pc, heap, currentConfig, attemptCount, args, calls, timers, outcome,
          result, req, rpc, questions, pending, ids, response, table, input,
          applied, output, trace, customTopicsFile, topicPosts, component,
          preflights, selections>>

-----------------------------------------------------------------------------
(* Optional values *)

None == <<>>

Some(v) == <<v>>

\* Nothing was posted to /api/topics and custom-topics.json does not exist.
NoTopics ==
    /\ customTopicsFile = None
    /\ topicPosts = <<>>

\* AIModelSelectionFiltered is not rendered.
NoComponent ==
    /\ component = [mounted |-> FALSE, selectedModel |-> "", apiKey |-> "",
                    error |-> "", testingModel |-> FALSE]
    /\ preflights = <<>>
    /\ selections = <<>>

-----------------------------------------------------------------------------
(* JavaScript string primitives *)

Whitespace == {" ", "\n", "\t"}

CharAt(s, i) == SubSeq(s, i + 1, i + 1)

\* s.substring(a, b)
Substring(s, a, b) == SubSeq(s, a + 1, b)

\* s.includes(sub)
Includes(s, sub) ==
    \E i \in 0..(Len(s) - Len(sub)) : Substring(s, i, i + Len(sub)) = sub

\* s.indexOf(ch) for a one-character ch
IndexOf(s, ch) ==
    IF \E i \in 0..(Len(s) - 1) : CharAt(s, i) = ch
    THEN CHOOSE i \in 0..(Len(s) - 1) :
            /\ CharAt(s, i) = ch
            /\ \A j \in 0..(i - 1) : CharAt(s, j) # ch
    ELSE -1

\* s.lastIndexOf(ch) for a one-character ch
LastIndexOf(s, ch) ==
    IF \E i \in 0..(Len(s) - 1) : CharAt(s, i) = ch
    THEN CHOOSE i \in 0..(Len(s) - 1) :
            /\ CharAt(s, i) = ch
            /\ \A j \in (i + 1)..(Len(s) - 1) : CharAt(s, j) # ch
    ELSE -1

RECURSIVE TrimStart(_)
TrimStart(s) ==
    IF Len(s) > 0 /\ Head(s) \in Whitespace THEN TrimStart(Tail(s)) ELSE s

RECURSIVE TrimEnd(_)
TrimEnd(s) ==
    IF Len(s) > 0 /\ CharAt(s, Len(s) - 1) \in Whitespace
    THEN TrimEnd(Substring(s, 0, Len(s) - 1))
    ELSE s

\* s.trim()
Trim(s) == TrimEnd(TrimStart(s))

UpperLetters == "ABCDEFGHIJKLMNOPQRSTUVWXYZ"

LowerLetters == "abcdefghijklmnopqrstuvwxyz"

LowerChar(c) ==
    LET k == IndexOf(UpperLetters, c)
    IN  IF k >= 0 THEN CharAt(LowerLetters, k) ELSE c

UpperChar(c) ==
    LET k == IndexOf(LowerLetters, c)
    IN  IF k >= 0 THEN CharAt(UpperLetters, k) ELSE c

RECURSIVE ToLowerCase(_)
\* s.toLowerCase()
ToLowerCase(s) ==
    IF Len(s) = 0 THEN "" ELSE LowerChar(Head(s)) \o ToLowerCase(Tail(s))

Digits == "0123456789"

\* String(n) for a natural number n.
RECURSIVE NumToString(_)
NumToString(n) ==
    IF n < 10 THEN CharAt(Digits, n)
    ELSE NumToString(n \div 10) \o CharAt(Digits, n % 10)

-----------------------------------------------------------------------------
(* Provider catalog *)

AIProvider == {"mistral", "gemini"}

AVAILABLE_MODELS ==
    [gemini  |-> <<"gemini-2.5-flash", "gemini-1.5-flash", "gemini-1.5-pro">>,
     mistral |-> <<"mistral-large-latest", "mistral-medium-latest",
                   "mistral-small-latest">>]

\* models.indexOf(m) on an array of strings
ArrayIndexOf(models, m) ==
    IF \E k \in 1..Len(models) : models[k] = m
    THEN (CHOOSE k \in 1..Len(models) :
             /\ models[k] = m
             /\ \A j \in 1..(k - 1) : models[j] # m) - 1
    ELSE -1

\* A faulty variant of getNextFallbackModel: a model that is not in the
\* catalog falls back on the first model of the catalog.
getNextFallbackModelFromUnknown(provider, currentModel) ==
    LET models == AVAILABLE_MODELS[provider]
        currentIndex == ArrayIndexOf(models, currentModel)
    IN  IF currentIndex < Len(models) - 1
        THEN Some([provider |-> provider, model |-> models[currentIndex + 2]])
        ELSE None

\* A faulty variant of getNextFallbackModel: the index advances by two.
getNextFallbackModelSkip(provider, currentModel) ==
    LET models == AVAILABLE_MODELS[provider]
        currentIndex == ArrayIndexOf(models, currentModel)
    IN  IF currentIndex >= 0 /\ currentIndex < Len(models) - 2
        THEN Some([provider |-> provider, model |-> models[currentIndex + 3]])
        ELSE None

\* The next model of the same provider, or None after the last one and for
\* a model that is not in the catalog.
getNextFallbackModel(provider, currentModel) ==
    LET models == AVAILABLE_MODELS[provider]
        currentIndex == ArrayIndexOf(models, currentModel)
    IN  IF currentIndex >= 0 /\ currentIndex < Len(models) - 1
        THEN Some([provider |-> provider, model |-> models[currentIndex + 2]])
        ELSE None

-----------------------------------------------------------------------------
(* Provider and model resolution *)

\* A faulty variant of getProviderFromModel: Gemini is looked for first.
getProviderFromModelGeminiFirst(modelSelection) ==
    LET lower == ToLowerCase(modelSelection)
    IN  IF Includes(lower, "gemini") \/ Includes(lower, "google")
        THEN Some("gemini")
        ELSE IF Includes(lower, "mistral") THEN Some("mistral")
        ELSE None

\* The provider of a selection, None for null.
getProviderFromModel(modelSelection) ==
    LET lower == ToLowerCase(modelSelection)
    IN  IF Includes(lower, "mistral") THEN Some("mistral")
        ELSE IF Includes(lower, "gemini") \/ Includes(lower, "google")
             THEN Some("gemini")
        ELSE None

\* A faulty variant of getModelFromSelection: the rule of mistral-large comes
\* first and an unmatched selection is returned in lower case.
getModelFromSelectionLargeFirst(modelSelection) ==
    LET lower == ToLowerCase(modelSelection)
    IN  IF Includes(lower, "mistral-large") THEN "mistral-large-latest"
        ELSE IF Includes(lower, "mistral-small") THEN "mistral-small-latest"
        ELSE IF Includes(lower, "mistral-medium") THEN "mistral-medium-latest"
        ELSE IF Includes(lower, "mistral") THEN "mistral-small-latest"
        ELSE IF Includes(lower, "gemini") THEN "gemini-2.5-flash"
        ELSE IF Includes(lower, "google") THEN "gemini-2.5-flash"
        ELSE lower

\* A faulty variant of getModelFromSelection: a selection naming gemini or
\* google is handed on as the model name.
getModelFromSelectionGeminiAsIs(modelSelection) ==
    LET lower == ToLowerCase(modelSelection)
    IN  IF Includes(lower, "mistral-small") THEN "mistral-small-latest"
        ELSE IF Includes(lower, "mistral-medium") THEN "mistral-medium-latest"
        ELSE IF Includes(lower, "mistral-large") THEN "mistral-large-latest"
        ELSE IF Includes(lower, "mistral") THEN "mistral-small-latest"
        ELSE modelSelection

\* The model name of a selection.
getModelFromSelection(modelSelection) ==
    LET lower == ToLowerCase(modelSelection)
    IN  IF Includes(lower, "mistral-small") THEN "mistral-small-latest"
        ELSE IF Includes(lower, "mistral-medium") THEN "mistral-medium-latest"
        ELSE IF Includes(lower, "mistral-large") THEN "mistral-large-latest"
        ELSE IF Includes(lower, "mistral") THEN "mistral-small-latest"
        ELSE IF Includes(lower, "gemini") THEN "gemini-2.5-flash"
        ELSE IF Includes(lower, "google") THEN "gemini-2.5-flash"
        ELSE modelSelection

-----------------------------------------------------------------------------
(* What an adapter call completes with, and the errors it raises *)

\* The text a call resolved with.
Ok(t) == [ok |-> TRUE, text |-> t, message |-> "", name |-> ""]

\* new Error(m), thrown.
Err(m) == [ok |-> FALSE, text |-> "", message |-> m, name |-> "Error"]

\* The call rejected with an error of class name and message m that the
\* adapter did not create.
ErrOf(name, m) == [ok |-> FALSE, text |-> "", message |-> m, name |-> name]

-----------------------------------------------------------------------------
(* What the provider SDKs can answer.  These are the inputs of the model:  *)
(* the SDK call is the only part of an adapter that is not deterministic.  *)

\* Texts a provider can generate.
Texts ==
    {"prefix text [ {\"a\":1} ] suffix",
     "{\"a\":1}",
     "no json here",
     " [1] and [2]\n",
     "{\"question\":\"Q\",\"difficulty\":\"Expert\",\"topic\":\"SQL\",\"options\":{\"A\":\"a\",\"B\":\"b\",\"C\":\"c\",\"D\":\"d\"},\"correct_answer\":\"B\"}",
     "[{\"question\":\"Q1\",\"difficulty\":\"easy\",\"topic\":\"SQL\",\"options\":{\"A\":\"a\",\"B\":\"b\",\"C\":\"c\",\"D\":\"d\"},\"correct_answer\":\"A\"},{\"question\":\"Q2\",\"difficulty\":\"HARD\",\"topic\":\"Joins\",\"options\":{\"A\":\"a\",\"B\":\"b\"},\"correct_answer\":\"B\"},{\"question\":\"Q3\",\"difficulty\":\"Expert\",\"topic\":\"SQL\",\"options\":{}},{\"question\":\"Q4\",\"topic\":\"SQL\",\"options\":{}}]"}

\* Messages of the errors the SDK call itself rejects with (network, HTTP).
TransportMessages == {"fetch failed", "401 Unauthorized"}

\* The class of the error the SDK rejects with: fetch rejects with a
\* TypeError, an HTTP status comes as a plain Error.
TransportName(m) == IF m = "fetch failed" THEN "TypeError" ELSE "Error"

\* candidates[0].finishReason
FinishReasons == {"STOP", "MAX_TOKENS", "SAFETY", "RECITATION"}

GeminiThrows(m) ==
    [threw |-> TRUE, message |-> m, textThrows |-> FALSE, text |-> "",
     parts |-> <<>>, finishReason |-> "STOP"]

\* response.text() returns t.
GeminiText(t, reason) ==
    [threw |-> FALSE, message |-> "", textThrows |-> FALSE, text |-> t,
     parts |-> <<Some(t)>>, finishReason |-> reason]

\* response.text() throws; candidates[0].content.parts is ps, each part
\* with or without a text field.
GeminiTextThrows(ps, reason) ==
    [threw |-> FALSE, message |-> "", textThrows |-> TRUE, text |-> "",
     parts |-> ps, finishReason |-> reason]

GeminiResponses ==
    {GeminiThrows(m) : m \in TransportMessages}
    \cup {GeminiText(t, "STOP") : t \in Texts}
    \cup {GeminiText("", r) : r \in FinishReasons}
    \cup {GeminiText(" \n", r) : r \in {"STOP", "MAX_TOKENS"}}
    \cup {GeminiTextThrows(<<Some("no json here")>>, "STOP"),
          GeminiTextThrows(<<Some("")>>, "MAX_TOKENS"),
          GeminiTextThrows(<<None>>, "STOP"),
          GeminiTextThrows(<<>>, "SAFETY")}

\* message.content of a chat choice: null, a string, or an array of chunks.
ContentNull == [t |-> "null", s |-> "", a |-> <<>>]

ContentString(s) == [t |-> "str", s |-> s, a |-> <<>>]

ContentArray(a) == [t |-> "arr", s |-> "", a |-> a]

\* A chunk of an array content: a plain string, an object with a text
\* field, or an object without one.
ChunkString(s) == [kind |-> "string", text |-> s]

ChunkText(s) == [kind |-> "text", text |-> s]

ChunkOther == [kind |-> "other", text |-> ""]

MistralThrows(m) == [threw |-> TRUE, message |-> m, choices |-> <<>>]

MistralChoices(cs) == [threw |-> FALSE, message |-> "", choices |-> cs]

MistralResponses ==
    {MistralThrows(m) : m \in TransportMessages}
    \cup {MistralChoices(<<ContentString(t)>>) : t \in Texts}
    \cup {MistralChoices(<<>>),
          MistralChoices(<<ContentNull>>),
          MistralChoices(<<ContentString("")>>),
          MistralChoices(<<ContentArray(<<>>)>>),
          MistralChoices(<<ContentArray(<<ChunkOther>>)>>),
          MistralChoices(<<ContentArray(<<ChunkString(" ")>>)>>),
          MistralChoices(<<ContentArray(<<ChunkText("[1] and"), ChunkOther,
                                          ChunkString(" [2]")>>)>>)}

SdkResponses(provider) ==
    IF provider = "gemini" THEN GeminiResponses ELSE MistralResponses

-----------------------------------------------------------------------------
(* Provider adapters: callAIProvider *)

MaxTokensMessage ==
    "Response exceeded max tokens. The prompt or expected output is too large. Try reducing complexity."

SafetyMessage ==
    "Response blocked by safety filter. Try rephrasing your prompt."

EmptyGeminiMessage == "Empty response from Gemini API"

\* The text extracted from a Gemini response: response.text(), and when
\* that throws, the text of the first part; None stands for null.
GeminiExtractText(r) ==
    IF ~r.textThrows THEN Some(r.text)
    ELSE IF Len(r.parts) > 0
         THEN LET part == r.parts[1]
              IN  IF Len(part) > 0 /\ part[1] # "" THEN Some(part[1]) ELSE None
         ELSE None

\* A faulty variant of GeminiAdapter: every empty result gives the same error.
GeminiAdapterOneEmptyError(r) ==
    IF r.threw THEN ErrOf(TransportName(r.message), r.message)
    ELSE LET text == GeminiExtractText(r)
         IN  IF Len(text) = 0 \/ Len(Trim(text[1])) = 0
             THEN Err(EmptyGeminiMessage)
             ELSE Ok(text[1])

\* The Gemini branch, the SDK answering r.
GeminiAdapter(r) ==
    IF r.threw THEN ErrOf(TransportName(r.message), r.message)
    ELSE LET text == GeminiExtractText(r)
         IN  IF Len(text) = 0 \/ Len(Trim(text[1])) = 0
             THEN IF r.finishReason = "MAX_TOKENS" THEN Err(MaxTokensMessage)
                  ELSE IF r.finishReason = "SAFETY" THEN Err(SafetyMessage)
                  ELSE Err(EmptyGeminiMessage)
             ELSE Ok(text[1])

RECURSIVE JoinChunks(_)
\* content.map(c => typeof c === 'string' ? c : (c.text || '')).join('')
JoinChunks(a) ==
    IF Len(a) = 0 THEN ""
    ELSE (IF Head(a).kind = "other" THEN "" ELSE Head(a).text)
         \o JoinChunks(Tail(a))

\* A faulty variant of MistralTry: the joined text is returned unchecked.
MistralTryUnchecked(r) ==
    IF r.threw THEN ErrOf(TransportName(r.message), r.message)
    ELSE IF Len(r.choices) = 0 THEN Err("No choices in Mistral response")
    ELSE LET content == r.choices[1]
         IN  IF content.t = "null" \/ (content.t = "str" /\ content.s = "")
             THEN Err("Empty content in Mistral response")
             ELSE Ok(IF content.t = "str" THEN content.s
                     ELSE JoinChunks(content.a))

\* What the try block of the Mistral branch completes with.
MistralTry(r) ==
    IF r.threw THEN ErrOf(TransportName(r.message), r.message)
    ELSE IF Len(r.choices) = 0 THEN Err("No choices in Mistral response")
    ELSE LET content == r.choices[1]
         IN  IF content.t = "null" \/ (content.t = "str" /\ content.s = "")
             THEN Err("Empty content in Mistral response")
             ELSE LET textContent ==
                          IF content.t = "str" THEN content.s
                          ELSE JoinChunks(content.a)
                  IN  IF textContent = ""
                      THEN Err("No text content in Mistral response")
                      ELSE Ok(textContent)

\* The Mistral branch: every error of the try block is caught and wrapped.
MistralAdapter(r) ==
    LET out == MistralTry(r)
    IN  IF out.ok THEN out ELSE Err("Mistral API error: " \o out.message)

\* callAIProvider(config, prompt, systemPrompt), the SDK answering r.
callAIProvider(config, r) ==
    IF config.provider = "gemini" THEN GeminiAdapter(r)
    ELSE IF config.provider = "mistral" THEN MistralAdapter(r)
    ELSE Err("Unsupported provider: " \o config.provider)

-----------------------------------------------------------------------------
(* What a run writes to the console *)

\* A console.log or console.error call: the line it writes.
Line(text) == <<"log", text>>

\* The answer of the SDK to an adapter call.
Answer(r) == <<"sdk", r>>

\* The trace tr with the events added, when the run is observed.
Observe(tr, events) == IF tr = None THEN None ELSE Some(tr[1] \o events)

\* Lines 98 and 176: written before the SDK is called.
CallingLog(config) ==
    IF config.provider = "gemini"
    THEN <<Line("Calling Gemini API with model: " \o config.model)>>
    ELSE IF config.provider = "mistral"
    THEN <<Line("Calling Mistral API with model: " \o config.model)>>
    ELSE <<>>

\* The lines of the Gemini branch after the SDK answered r (lines 122-171).
\* The safety ratings are part of the answer and are left out of the lines.
GeminiLogs(r) ==
    IF r.threw
    THEN <<Line("Gemini API error: " \o r.message),
           Line("Full error details: " \o TransportName(r.message) \o ": "
                \o r.message)>>
    ELSE LET text == GeminiExtractText(r)
             out == GeminiAdapter(r)
         IN  <<Line("Gemini Response Details:"),
               Line("   - Status: " \o r.finishReason),
               Line("   - SafetyRatings:")>>
             \o (IF r.textThrows
                 THEN <<Line("Failed to extract text using response.text():")>>
                      \o (IF Len(r.parts) > 0
                          THEN <<Line("Successfully extracted text from candidates.content.parts")>>
                          ELSE <<>>)
                 ELSE <<>>)
             \o <<Line("Gemini response received, length: "
                       \o (IF text = None THEN "undefined"
                           ELSE NumToString(Len(text[1]))))>>
             \o (IF out.ok THEN <<>>
                 ELSE <<Line("Gemini returned empty response"),
                        Line("   Finish Reason: " \o r.finishReason),
                        Line("   Safety Ratings:"),
                        Line("Gemini API error: " \o out.message),
                        Line("Full error details: Error: " \o out.message)>>)

\* The lines of the Mistral branch after the SDK answered r (lines 185-211).
MistralLogs(r) ==
    LET out == MistralTry(r)
    IN  (IF out.ok
         THEN <<Line("Mistral response received, length: "
                     \o NumToString(Len(out.text)))>>
         ELSE IF out.message = "No text content in Mistral response"
         THEN <<Line("Mistral response received, length: 0")>>
         ELSE <<>>)
        \o (IF out.ok THEN <<>>
            ELSE <<Line("Mistral API error: " \o out.message)>>)

\* The lines callAIProvider writes after the SDK answered r.
AdapterLogs(config, r) ==
    IF config.provider = "gemini" THEN GeminiLogs(r)
    ELSE IF config.provider = "mistral" THEN MistralLogs(r)
    ELSE <<>>

\* A faulty variant of AttemptLog: the line shows the API key of the config.
AttemptLogWithKey(config, count, max) ==
    Line("Attempt " \o NumToString(count) \o "/" \o NumToString(max)
         \o ": Using " \o config.provider \o " - " \o config.model
         \o " (" \o config.apiKey \o ")")

\* Lines 51-53.
AttemptLog(config, count, max) ==
    Line("Attempt " \o NumToString(count) \o "/" \o NumToString(max)
         \o ": Using " \o config.provider \o " - " \o config.model)

\* Line 56.
SuccessLog(config) ==
    Line("Success with " \o config.provider \o " - " \o config.model)

\* Lines 60-63.
FailedLog(config, message) ==
    Line("Failed with " \o config.provider \o " - " \o config.model \o ": "
         \o message)

\* Lines 66 and 73: the attempts are used up, or no next model exists.
GiveUpLog(initialConfig, count, max) ==
    IF count >= max
    THEN Line("All " \o NumToString(max) \o " attempts exhausted for "
              \o initialConfig.provider)
    ELSE Line("No fallback model available for " \o initialConfig.provider)

\* Line 82.
FallbackLog(next) ==
    Line("Trying fallback: " \o next.provider \o " - " \o next.model)

-----------------------------------------------------------------------------
(* JavaScript values: what JSON.parse returns and what the routes read     *)

JUndefined == [t |-> "undefined"]

JNull == [t |-> "null"]

JBool(b) == [t |-> "bool", b |-> b]

JNum(n) == [t |-> "num", n |-> n]

JStr(s) == [t |-> "str", s |-> s]

\* An array: its elements, and the named properties set on it.
JArr(a) == [t |-> "arr", a |-> a, o |-> <<>>]

\* An object: its members in order, each [k |-> key, v |-> value].
JObj(o) == [t |-> "obj", o |-> o]

\* Whether properties can be set on v.
IsObject(v) == v.t \in {"obj", "arr"}

\* Whether reading a property of v throws a TypeError.
IsNullish(v) == v.t \in {"null", "undefined"}

\* v.k: the last member named k of an object, undefined otherwise.  Not
\* defined for null and undefined, where the property access throws.
GetProp(v, k) ==
    IF IsObject(v) /\ \E j \in 1..Len(v.o) : v.o[j].k = k
    THEN v.o[CHOOSE j \in 1..Len(v.o) :
                /\ v.o[j].k = k
                /\ \A m \in (j + 1)..Len(v.o) : v.o[m].k # k].v
    ELSE JUndefined

\* v.k = x on an object: the member is replaced in place or appended.
SetProp(v, k, x) ==
    IF \E j \in 1..Len(v.o) : v.o[j].k = k
    THEN [v EXCEPT !.o = [j \in 1..Len(v.o) |->
                  IF v.o[j].k = k THEN [k |-> k, v |-> x] ELSE v.o[j]]]
    ELSE [v EXCEPT !.o = Append(v.o, [k |-> k, v |-> x])]

\* ToBoolean(v)
Truthy(v) ==
    CASE v.t = "undefined" -> FALSE
      [] v.t = "null" -> FALSE
      [] v.t = "bool" -> v.b
      [] v.t = "num" -> v.n # 0
      [] v.t = "str" -> v.s # ""
      [] OTHER -> TRUE

-----------------------------------------------------------------------------
(* JSON.parse, for texts made of objects, arrays, strings without escape   *)
(* sequences, unsigned integers and the literals true, false and null      *)

JsonWhitespace == {" ", "\n", "\t", "\r"}

ParseFail == [ok |-> FALSE, v |-> JNull, i |-> 0]

ParseOk(v, i) == [ok |-> TRUE, v |-> v, i |-> i]

RECURSIVE SkipWs(_, _)
\* The first position at or after i that holds no whitespace.
SkipWs(s, i) ==
    IF i < Len(s) /\ CharAt(s, i) \in JsonWhitespace THEN SkipWs(s, i + 1) ELSE i

RECURSIVE DigitsEnd(_, _)
\* The first position at or after i that holds no digit.
DigitsEnd(s, i) ==
    IF i < Len(s) /\ IndexOf(Digits, CharAt(s, i)) >= 0
    THEN DigitsEnd(s, i + 1)
    ELSE i

RECURSIVE DigitsValue(_)
DigitsValue(d) ==
    IF Len(d) = 0 THEN 0
    ELSE 10 * DigitsValue(Substring(d, 0, Len(d) - 1))
         + IndexOf(Digits, CharAt(d, Len(d) - 1))

\* An unsigned integer at i; a leading zero is a number of its own.
ParseNumber(s, i) ==
    LET e == IF CharAt(s, i) = "0" THEN i + 1 ELSE DigitsEnd(s, i)
    IN  ParseOk(JNum(DigitsValue(Substring(s, i, e))), e)

RECURSIVE StringEnd(_, _)
\* The position of the quote that closes the string opened before i, or
\* -1 when the text ends or a control character or a backslash comes first.
StringEnd(s, i) ==
    IF i >= Len(s) \/ CharAt(s, i) \in {"\n", "\t", "\r", "\\"} THEN -1
    ELSE IF CharAt(s, i) = "\"" THEN i
    ELSE StringEnd(s, i + 1)

\* A string whose opening quote is at i.
ParseString(s, i) ==
    LET e == StringEnd(s, i + 1)
    IN  IF e < 0 THEN ParseFail ELSE ParseOk(JStr(Substring(s, i + 1, e)), e + 1)

ParseLiteral(s, i, word, v) ==
    IF Substring(s, i, i + Len(word)) = word THEN ParseOk(v, i + Len(word))
    ELSE ParseFail

RECURSIVE ParseValue(_, _)
RECURSIVE ParseElements(_, _, _)
RECURSIVE ParseMembers(_, _, _)

\* The elements of an array after its first: i is just after an element.
ParseElements(s, i, acc) ==
    LET j == SkipWs(s, i)
    IN  IF j >= Len(s) THEN ParseFail
        ELSE IF CharAt(s, j) = "]" THEN ParseOk(JArr(acc), j + 1)
        ELSE IF CharAt(s, j) = ","
             THEN LET r == ParseValue(s, j + 1)
                  IN  IF r.ok THEN ParseElements(s, r.i, Append(acc, r.v))
                      ELSE ParseFail
        ELSE ParseFail

\* One member of an object, "key": value, at or after i, then the rest.
ParseMembers(s, i, acc) ==
    LET j == SkipWs(s, i)
    IN  IF j >= Len(s) \/ CharAt(s, j) # "\"" THEN ParseFail
        ELSE LET key == ParseString(s, j)
                 c == IF key.ok THEN SkipWs(s, key.i) ELSE 0
             IN  IF ~key.ok \/ c >= Len(s) \/ CharAt(s, c) # ":" THEN ParseFail
                 ELSE LET r == ParseValue(s, c + 1)
                          e == IF r.ok THEN SkipWs(s, r.i) ELSE 0
                          members == Append(acc, [k |-> key.v.s, v |-> r.v])
                      IN  IF ~r.ok \/ e >= Len(s) THEN ParseFail
                          ELSE IF CharAt(s, e) = "}"
                               THEN ParseOk(JObj(members), e + 1)
                          ELSE IF CharAt(s, e) = ","
                               THEN ParseMembers(s, e + 1, members)
                          ELSE ParseFail

\* A JSON value at or after i, leading whitespace skipped.
ParseValue(s, i) ==
    LET j == SkipWs(s, i)
        c == CharAt(s, j)
    IN  IF j >= Len(s) THEN ParseFail
        ELSE IF c = "[" THEN
            LET k == SkipWs(s, j + 1)
            IN  IF k < Len(s) /\ CharAt(s, k) = "]" THEN ParseOk(JArr(<<>>), k + 1)
                ELSE LET r == ParseValue(s, k)
                     IN  IF r.ok THEN ParseElements(s, r.i, <<r.v>>) ELSE ParseFail
        ELSE IF c = "{" THEN
            LET k == SkipWs(s, j + 1)
            IN  IF k < Len(s) /\ CharAt(s, k) = "}" THEN ParseOk(JObj(<<>>), k + 1)
                ELSE ParseMembers(s, k, <<>>)
        ELSE IF c = "\"" THEN ParseString(s, j)
        ELSE IF IndexOf(Digits, c) >= 0 THEN ParseNumber(s, j)
        ELSE IF c = "t" THEN ParseLiteral(s, j, "true", JBool(TRUE))
        ELSE IF c = "f" THEN ParseLiteral(s, j, "false", JBool(FALSE))
        ELSE IF c = "n" THEN ParseLiteral(s, j, "null", JNull)
        ELSE ParseFail

\* JSON.parse(s): the value, or None when it throws a SyntaxError.
JsonParse(s) ==
    LET r == ParseValue(s, 0)
    IN  IF r.ok /\ SkipWs(s, r.i) = Len(s) THEN Some(r.v) ELSE None

-----------------------------------------------------------------------------
(* JSON-array extractor: extractJSONArray, the same in every question route *)

\* What extractJSONArray completes with: the array it returns, or the
\* message of the Error it throws.
Extracted(a) == [ok |-> TRUE, value |-> a, message |-> ""]

ExtractError(m) == [ok |-> FALSE, value |-> <<>>, message |-> m]

\* A faulty variant of extractJSONArray: the bracket span ends at the first ']'.
extractJSONArrayFirstClose(raw) ==
    LET s == Trim(raw)
        firstBracket == IndexOf(s, "[")
        lastBracket == IndexOf(s, "]")
    IN  IF firstBracket = -1 \/ lastBracket = -1 \/ lastBracket < firstBracket
        THEN LET firstBrace == IndexOf(s, "{")
                 lastBrace == LastIndexOf(s, "}")
             IN  IF firstBrace # -1 /\ lastBrace # -1 /\ lastBrace > firstBrace
                 THEN LET parsed == JsonParse(Substring(s, firstBrace, lastBrace + 1))
                      IN  IF Len(parsed) = 0
                          THEN ExtractError("Failed to parse JSON object from response")
                          ELSE Extracted(<<parsed[1]>>)
                 ELSE ExtractError(
                          "Invalid response format: No JSON array or object found")
        ELSE LET parsed == JsonParse(Substring(s, firstBracket, lastBracket + 1))
             IN  IF Len(parsed) = 0
                 THEN ExtractError("Failed to parse JSON array from response")
                 ELSE Extracted(parsed[1].a)

\* A faulty variant of extractJSONArray: a brace span is preferred to the
\* bracket span.
extractJSONArrayBraceFirst(raw) ==
    LET s == Trim(raw)
        firstBracket == IndexOf(s, "[")
        lastBracket == LastIndexOf(s, "]")
    IN  IF firstBracket = -1 \/ lastBracket = -1 \/ lastBracket < firstBracket
           \/ (IndexOf(s, "{") # -1 /\ IndexOf(s, "{") < firstBracket)
        THEN LET firstBrace == IndexOf(s, "{")
                 lastBrace == LastIndexOf(s, "}")
             IN  IF firstBrace # -1 /\ lastBrace # -1 /\ lastBrace > firstBrace
                 THEN LET parsed == JsonParse(Substring(s, firstBrace, lastBrace + 1))
                      IN  IF Len(parsed) = 0
                          THEN ExtractError("Failed to parse JSON object from response")
                          ELSE Extracted(<<parsed[1]>>)
                 ELSE ExtractError(
                          "Invalid response format: No JSON array or object found")
        ELSE LET parsed == JsonParse(Substring(s, firstBracket, lastBracket + 1))
             IN  IF Len(parsed) = 0
                 THEN ExtractError("Failed to parse JSON array from response")
                 ELSE Extracted(parsed[1].a)

\* A faulty variant of extractJSONArray: a bracket span that does not parse
\* is given up for the brace span.
extractJSONArrayRescued(raw) ==
    LET s == Trim(raw)
        firstBracket == IndexOf(s, "[")
        lastBracket == LastIndexOf(s, "]")
    IN  IF firstBracket = -1 \/ lastBracket = -1 \/ lastBracket < firstBracket
           \/ Len(JsonParse(Substring(s, firstBracket, lastBracket + 1))) = 0
        THEN LET firstBrace == IndexOf(s, "{")
                 lastBrace == LastIndexOf(s, "}")
             IN  IF firstBrace # -1 /\ lastBrace # -1 /\ lastBrace > firstBrace
                 THEN LET parsed == JsonParse(Substring(s, firstBrace, lastBrace + 1))
                      IN  IF Len(parsed) = 0
                          THEN ExtractError("Failed to parse JSON object from response")
                          ELSE Extracted(<<parsed[1]>>)
                 ELSE ExtractError(
                          "Invalid response format: No JSON array or object found")
        ELSE LET parsed == JsonParse(Substring(s, firstBracket, lastBracket + 1))
             IN  IF Len(parsed) = 0
                 THEN ExtractError("Failed to parse JSON array from response")
                 ELSE Extracted(parsed[1].a)

\* extractJSONArray(raw): what it returns or throws.
extractJSONArray(raw) ==
    LET s == Trim(raw)
        firstBracket == IndexOf(s, "[")
        lastBracket == LastIndexOf(s, "]")
    IN  IF firstBracket = -1 \/ lastBracket = -1 \/ lastBracket < firstBracket
        THEN LET firstBrace == IndexOf(s, "{")
                 lastBrace == LastIndexOf(s, "}")
             IN  IF firstBrace # -1 /\ lastBrace # -1 /\ lastBrace > firstBrace
                 THEN LET parsed == JsonParse(Substring(s, firstBrace, lastBrace + 1))
                      IN  IF Len(parsed) = 0
                          THEN ExtractError("Failed to parse JSON object from response")
                          ELSE Extracted(<<parsed[1]>>)
                 ELSE ExtractError(
                          "Invalid response format: No JSON array or object found")
        ELSE LET parsed == JsonParse(Substring(s, firstBracket, lastBracket + 1))
             IN  IF Len(parsed) = 0
                 THEN ExtractError("Failed to parse JSON array from response")
                 ELSE Extracted(parsed[1].a)

-----------------------------------------------------------------------------
(* Fallback-retry executor: callAIProviderWithFallback *)

\* The delay before a retry, in milliseconds.
BackoffMs == 1000

\* The invocations of the executor that exist.
Invocations == DOMAIN pc

NoOutcome == [kind |-> "none", text |-> "", message |-> "", origin |-> 0]

\* The adapter call number n resolved with text t.
Resolved(t, n) == [kind |-> "ok", text |-> t, message |-> "", origin |-> n]

\* The adapter call number n rejected with new Error(m): origin tells the
\* error objects of different calls apart.
Rejected(m, n) == [kind |-> "error", text |-> "", message |-> m, origin |-> n]

NoResult == [kind |-> "none", text |-> "", message |-> "", origin |-> 0]

Returned(t) == [kind |-> "returned", text |-> t, message |-> "", origin |-> 0]

\* Thrown: the error object e itself.
Thrown(e) ==
    [kind |-> "thrown", text |-> "", message |-> e.message, origin |-> e.origin]

\* The error of line 88, created by the executor (origin 0: no adapter call).
GenericError(provider) ==
    [kind |-> "error", text |-> "",
     message |-> "Failed to get response from " \o provider \o " models",
     origin |-> 0]

\* A faulty variant of maxAttempts: one attempt short.
maxAttemptsShort(i) == Len(AVAILABLE_MODELS[heap[i][1].provider]) - 1

\* const maxAttempts = AVAILABLE_MODELS[initialConfig.provider].length; the
\* initialConfig object is heap[i][1].
maxAttempts(i) == Len(AVAILABLE_MODELS[heap[i][1].provider])

\* A faulty variant of CurrentConfig: one `currentConfig` shared by every
\* invocation (a module-level variable), here the one of invocation 1.
CurrentConfigShared(i) == heap[1][Len(heap[1])]

\* The object `currentConfig` refers to.
CurrentConfig(i) == heap[i][currentConfig[i]]

\* A faulty variant of Spread: only the fields of the fallback are kept.
SpreadFallbackOnly(config, fallback) ==
    [config EXCEPT !.provider = fallback.provider, !.model = fallback.model,
                   !.apiKey = ""]

\* { ...currentConfig, ...fallback }: a new object.
Spread(config, fallback) ==
    [config EXCEPT !.provider = fallback.provider, !.model = fallback.model]

\* A faulty variant of CatchDecision: a response blocked by the safety filter is
\* reported at once instead of being retried.
CatchDecisionBySafety(config, count, max, error) ==
    IF count >= max \/ Includes(error.message, "safety filter")
    THEN [throw |-> TRUE, next |-> None]
    ELSE LET fallback == getNextFallbackModel(config.provider, config.model)
         IN  IF Len(fallback) = 0 THEN [throw |-> TRUE, next |-> None]
             ELSE [throw |-> FALSE, next |-> Some(Spread(config, fallback[1]))]

\* The catch block, lines 58-85: rethrow when the attempts are used up or
\* no next model exists, else the config of the next attempt.  The error
\* takes no part in the decision.
CatchDecision(config, count, max, error) ==
    IF count >= max THEN [throw |-> TRUE, next |-> None]
    ELSE LET fallback == getNextFallbackModel(config.provider, config.model)
         IN  IF Len(fallback) = 0 THEN [throw |-> TRUE, next |-> None]
             ELSE [throw |-> FALSE, next |-> Some(Spread(config, fallback[1]))]

\* A faulty variant of Rethrow: the error of line 88 instead of the caught one.
RethrowGeneric(error) == Thrown(GenericError("gemini"))

\* `throw error` of lines 67 and 74.
Rethrow(error) == Thrown(error)

\* A faulty variant of ReturnResult: the text is trimmed before it is returned.
ReturnResultTrimmed(text) == Returned(Trim(text))

\* `return result` of line 57.
ReturnResult(text) == Returned(text)

\* A faulty variant of SetBackoff: no delay is set.
SetBackoffNone(ts) == ts

\* setTimeout(resolve, 1000) of line 84.
SetBackoff(ts) == Append(ts, BackoffMs)

\* The loop test of line 48 with what follows it synchronously: the next
\* attempt up to the adapter call (lines 49-55), or line 88.  count is
\* attemptCount and ref is currentConfig at the test.
LoopIteration(i, count, ref) ==
    IF count < maxAttempts(i)
    THEN /\ attemptCount' = [attemptCount EXCEPT ![i] = count + 1]
         /\ calls' = [calls EXCEPT ![i] =
                Append(@, [config |-> heap[i][ref], prompt |-> args[i].prompt,
                           systemPrompt |-> args[i].systemPrompt])]
         /\ outcome' = [outcome EXCEPT ![i] = NoOutcome]
         /\ pc' = [pc EXCEPT ![i] = "calling"]
         /\ result' = result
         /\ trace' = [trace EXCEPT ![i] =
                Observe(@, <<AttemptLog(heap[i][ref], count + 1, maxAttempts(i))>>
                           \o CallingLog(heap[i][ref]))]
    ELSE /\ attemptCount' = [attemptCount EXCEPT ![i] = count]
         /\ pc' = [pc EXCEPT ![i] = "thrown"]
         /\ result' = [result EXCEPT ![i] =
                Thrown(GenericError(heap[i][1].provider))]
         /\ UNCHANGED <<calls, outcome, trace>>

\* The invocation starts: lines 44-46, then the first loop iteration.
Enter(i) ==
    /\ pc[i] = "called"
    /\ currentConfig' = [currentConfig EXCEPT ![i] = 1]
    /\ LoopIteration(i, 0, 1)
    /\ UNCHANGED <<heap, args, timers>>
    /\ UNCHANGED routeVars
    /\ UNCHANGED <<evalVars, topicVars, componentVars>>

\* A faulty variant of AdapterCompletes: a failed call is repeated at once, with no
\* attempt limit and no fallback lookup.
AdapterCompletesRetryInPlace(i) ==
    /\ pc[i] = "calling"
    /\ \E r \in SdkResponses(CurrentConfig(i).provider) :
          LET out == callAIProvider(CurrentConfig(i), r)
              n == Len(calls[i])
          IN  IF out.ok
              THEN /\ outcome' = [outcome EXCEPT ![i] = Resolved(out.text, n)]
                   /\ result' = [result EXCEPT ![i] = ReturnResult(out.text)]
                   /\ pc' = [pc EXCEPT ![i] = "returned"]
                   /\ trace' = [trace EXCEPT ![i] =
                          Observe(@, <<Answer(r)>>
                                     \o AdapterLogs(CurrentConfig(i), r)
                                     \o <<SuccessLog(CurrentConfig(i))>>)]
                   /\ UNCHANGED <<attemptCount, calls>>
              ELSE /\ outcome' = [outcome EXCEPT ![i] = NoOutcome]
                   /\ attemptCount' = [attemptCount EXCEPT ![i] = @ + 1]
                   /\ calls' = [calls EXCEPT ![i] = Append(@, calls[i][n])]
                   /\ trace' = [trace EXCEPT ![i] =
                          Observe(@, <<Answer(r)>>
                                     \o AdapterLogs(CurrentConfig(i), r)
                                     \o <<FailedLog(CurrentConfig(i), out.message)>>)]
                   /\ UNCHANGED <<pc, result>>
    /\ UNCHANGED <<heap, currentConfig, args, timers>>
    /\ UNCHANGED routeVars
    /\ UNCHANGED <<evalVars, topicVars, componentVars>>

\* The adapter call in flight completes, the SDK having answered r: the
\* return of line 57, or the catch block.
AdapterCompletes(i) ==
    /\ pc[i] = "calling"
    /\ \E r \in SdkResponses(CurrentConfig(i).provider) :
          LET out == callAIProvider(CurrentConfig(i), r)
              n == Len(calls[i])
          IN  IF out.ok
              THEN /\ outcome' = [outcome EXCEPT ![i] = Resolved(out.text, n)]
                   /\ result' = [result EXCEPT ![i] = ReturnResult(out.text)]
                   /\ pc' = [pc EXCEPT ![i] = "returned"]
                   /\ trace' = [trace EXCEPT ![i] =
                          Observe(@, <<Answer(r)>>
                                     \o AdapterLogs(CurrentConfig(i), r)
                                     \o <<SuccessLog(CurrentConfig(i))>>)]
                   /\ UNCHANGED <<heap, currentConfig, timers>>
              ELSE LET error == Rejected(out.message, n)
                       d == CatchDecision(CurrentConfig(i), attemptCount[i],
                                          maxAttempts(i), error)
                   IN  /\ outcome' = [outcome EXCEPT ![i] = error]
                       /\ trace' = [trace EXCEPT ![i] =
                              Observe(@, <<Answer(r)>>
                                  \o AdapterLogs(CurrentConfig(i), r)
                                  \o <<FailedLog(CurrentConfig(i), out.message)>>
                                  \o (IF d.throw
                                      THEN <<GiveUpLog(heap[i][1], attemptCount[i],
                                                       maxAttempts(i))>>
                                      ELSE <<FallbackLog(d.next[1])>>))]
                       /\ IF d.throw
                          THEN /\ result' = [result EXCEPT ![i] = Rethrow(error)]
                               /\ pc' = [pc EXCEPT ![i] = "thrown"]
                               /\ UNCHANGED <<heap, currentConfig, timers>>
                          ELSE /\ heap' = [heap EXCEPT ![i] = Append(@, d.next[1])]
                               /\ currentConfig' =
                                      [currentConfig EXCEPT ![i] = Len(heap[i]) + 1]
                               /\ timers' = [timers EXCEPT ![i] = SetBackoff(@)]
                               /\ pc' = [pc EXCEPT ![i] = "delay"]
                               /\ result' = result
    /\ UNCHANGED <<attemptCount, args, calls>>
    /\ UNCHANGED routeVars
    /\ UNCHANGED <<evalVars, topicVars, componentVars>>

\* The delay is over: the loop test and the next attempt.
TimerFires(i) ==
    /\ pc[i] = "delay"
    /\ LoopIteration(i, attemptCount[i], currentConfig[i])
    /\ UNCHANGED <<heap, currentConfig, args, timers>>
    /\ UNCHANGED routeVars
    /\ UNCHANGED <<evalVars, topicVars, componentVars>>

-----------------------------------------------------------------------------
(* Rows of technical_questions and the parameters of the INSERTs *)

RECURSIVE ToStringJs(_)
RECURSIVE JoinValues(_)

\* a.join(","), null and undefined elements giving the empty string.
JoinValues(a) ==
    IF Len(a) = 0 THEN ""
    ELSE (IF IsNullish(a[1]) THEN "" ELSE ToStringJs(a[1]))
         \o (IF Len(a) > 1 THEN "," \o JoinValues(Tail(a)) ELSE "")

\* String(v), as a template literal converts v.
ToStringJs(v) ==
    CASE v.t = "undefined" -> "undefined"
      [] v.t = "null" -> "null"
      [] v.t = "bool" -> IF v.b THEN "true" ELSE "false"
      [] v.t = "num" -> NumToString(v.n)
      [] v.t = "str" -> v.s
      [] v.t = "arr" -> JoinValues(v.a)
      [] OTHER -> "[object Object]"

\* The TypeError of reading property k of null or undefined.
ReadError(v, k) ==
    "Cannot read properties of " \o v.t \o " (reading '" \o k \o "')"

\* The TypeError of setting property k on a value that is no object.
SetError(v, k) ==
    IF IsNullish(v)
    THEN "Cannot set properties of " \o v.t \o " (setting '" \o k \o "')"
    ELSE "Cannot create property '" \o k \o "' on "
         \o (IF v.t = "num" THEN "number" ELSE IF v.t = "str" THEN "string"
             ELSE "boolean")
         \o " '" \o ToStringJs(v) \o "'"

\* s.charAt(0).toUpperCase() + s.slice(1).toLowerCase()
Capitalize(s) ==
    IF Len(s) = 0 THEN ""
    ELSE UpperChar(CharAt(s, 0)) \o ToLowerCase(Substring(s, 1, Len(s)))

RECURSIVE SplitComma(_, _)
\* s.split(","), cur being the piece collected so far.
SplitComma(s, cur) ==
    IF Len(s) = 0 THEN <<cur>>
    ELSE IF Head(s) = "," THEN <<cur>> \o SplitComma(Tail(s), "")
    ELSE SplitComma(Tail(s), cur \o Head(s))

RECURSIVE JoinCommaSpace(_)
\* pieces.join(", ")
JoinCommaSpace(pieces) ==
    IF Len(pieces) = 0 THEN ""
    ELSE IF Len(pieces) = 1 THEN pieces[1]
    ELSE pieces[1] \o ", " \o JoinCommaSpace(Tail(pieces))

\* normalizeTechStack of the strict route, for a non-empty string.
normalizeTechStack(techStack) ==
    LET pieces == SplitComma(techStack, "")
    IN  JoinCommaSpace([k \in 1..Len(pieces) |-> Capitalize(Trim(pieces[k]))])

\* A faulty variant of Difficulties: one more level is let through.
DifficultiesWithExpert == {"Easy", "Medium", "Hard", "Expert"}

\* ['Easy', 'Medium', 'Hard']
Difficulties == {"Easy", "Medium", "Hard"}

\* The parameters of one INSERT; a column the statement does not name is null.
Row(question, type, techStack, difficulty, topic, a, b, c, d, answer) ==
    [question_text |-> question, question_type |-> type, tech_stack |-> techStack,
     difficulty |-> difficulty, topic |-> topic, option_a |-> a, option_b |-> b,
     option_c |-> c, option_d |-> d, correct_answer |-> answer]

NoRow ==
    Row(JUndefined, JUndefined, JUndefined, JUndefined, JUndefined, JUndefined,
        JUndefined, JUndefined, JUndefined, JUndefined)

\* The parameters were built, or building them threw an error.
Params(row) == [ok |-> TRUE, row |-> row, message |-> ""]

ParamsError(m) == [ok |-> FALSE, row |-> NoRow, message |-> m]

\* The params array of insertMCQ (generate-mcq).
MCQParams(mcq) ==
    IF IsNullish(mcq) THEN ParamsError(ReadError(mcq, "question"))
    ELSE
    LET difficulty == GetProp(mcq, "difficulty")
        options == GetProp(mcq, "options")
        techStack == IF Truthy(GetProp(mcq, "tech_stack"))
                     THEN GetProp(mcq, "tech_stack") ELSE GetProp(mcq, "topic")
    IN  IF Truthy(difficulty) /\ difficulty.t # "str"
        THEN ParamsError("mcq.difficulty.charAt is not a function")
        ELSE IF IsNullish(options) THEN ParamsError(ReadError(options, "A"))
        ELSE Params(Row(
                 GetProp(mcq, "question"), JStr("mcq"), techStack,
                 IF ~Truthy(difficulty) THEN JStr("Medium")
                 ELSE IF Capitalize(difficulty.s) \in Difficulties
                      THEN JStr(Capitalize(difficulty.s))
                 ELSE JStr("Medium"),
                 GetProp(mcq, "topic"),
                 GetProp(options, "A"), GetProp(options, "B"),
                 GetProp(options, "C"), GetProp(options, "D"),
                 GetProp(mcq, "correct_answer")))

\* A faulty variant of TopicMatches: any topic that is a string passes.
TopicMatchesAnyString(topic, originalTopic) == topic.t = "str"

\* The negation of question.topic !== originalTopic, originalTopic being a
\* string: same type and same characters.
TopicMatches(topic, originalTopic) == topic.t = "str" /\ topic.s = originalTopic

\* The params array of insertTechnicalQuestion(question, originalTopic) of
\* the strict technical-question route.
StrictParams(question, originalTopic) ==
    IF IsNullish(question) THEN ParamsError(ReadError(question, "question"))
    ELSE
    LET type == GetProp(question, "question_type")
        techStack == GetProp(question, "tech_stack")
        difficulty == GetProp(question, "difficulty")
        topic == GetProp(question, "topic")
    IN  IF Truthy(techStack) /\ techStack.t # "str"
        THEN ParamsError("techStack.split is not a function")
        ELSE IF ~Truthy(difficulty)
        THEN ParamsError("Difficulty is missing from AI response.")
        ELSE IF difficulty.t # "str"
        THEN ParamsError("difficulty.charAt is not a function")
        ELSE IF Capitalize(difficulty.s) \notin Difficulties
        THEN ParamsError("Invalid difficulty received from AI: " \o difficulty.s
                         \o ". Normalized: " \o Capitalize(difficulty.s))
        ELSE IF ~TopicMatches(topic, originalTopic)
        THEN ParamsError("AI generated topic \"" \o ToStringJs(topic)
                         \o "\" does not match requested topic \"" \o originalTopic
                         \o "\". Please ensure the AI model adheres strictly to the provided topic.")
        ELSE Params(Row(
                 GetProp(question, "question"),
                 IF Truthy(type) THEN type ELSE JStr("short_answer"),
                 IF Truthy(techStack) THEN JStr(normalizeTechStack(techStack.s))
                 ELSE JNull,
                 JStr(Capitalize(difficulty.s)), JStr(originalTopic),
                 JNull, JNull, JNull, JNull, JNull))

\* The params array of insertTechnicalQuestion(question) of the
\* technical-question route.
PlainParams(question) ==
    IF IsNullish(question) THEN ParamsError(ReadError(question, "question"))
    ELSE
    LET type == GetProp(question, "question_type")
        techStack == GetProp(question, "tech_stack")
        difficulty == GetProp(question, "difficulty")
    IN  Params(Row(
            GetProp(question, "question"),
            IF Truthy(type) THEN type ELSE JStr("short_answer"),
            IF Truthy(techStack) THEN techStack ELSE JNull,
            IF difficulty.t = "str" /\ difficulty.s \in Difficulties
            THEN difficulty ELSE JStr("Medium"),
            GetProp(question, "topic"),
            JNull, JNull, JNull, JNull, JNull))

-----------------------------------------------------------------------------
(* Route handlers: generate-mcq, the three technical-question routes and   *)
(* the preflight route test-model                                          *)

\* generate-mcq/route.ts; part_001 lines 103-253 (strict: difficulty and
\* topic are validated); part_001 lines 255-384; part_002 (its insert is a
\* placeholder); part_001 lines 1-101 (test-model).
GenerateRoutes ==
    {"generate-mcq", "technical-question-strict", "technical-question",
     "technical-question-stub"}

Routes == GenerateRoutes \cup {"test-model"}

\* The routes whose POST starts with resetTechnicalQuestionsSequence().
ResetRoutes == {"generate-mcq", "technical-question"}

NoRequest ==
    [route |-> "none", topic |-> "", difficulty |-> "", selectedAIModel |-> "",
     apiKey |-> "", numberOfQuestions |-> 1, techStack |-> None,
     questionType |-> None]

\* An optional body field that is present and not the empty string.
Given(field) == Len(field) > 0 /\ field[1] # ""

NoResponse ==
    [status |-> 0, error |-> "", message |-> "", ids |-> <<>>, questions |-> <<>>]

\* NextResponse.json({ error, message }, { status })
Respond(status, error, message) ==
    [status |-> status, error |-> error, message |-> message, ids |-> <<>>,
     questions |-> <<>>]

\* A 500 response that keeps the message of the error to itself.
InternalErrorOpaque(m) == Respond(500, "", "Internal Server Error")

\* The 500 response of a POST's catch block: error is err?.message.
InternalError(m) == Respond(500, m, "Internal Server Error")

\* The 201 response of a question route.
Created(message, insertedIds, qs) ==
    [status |-> 201, error |-> "", message |-> message, ids |-> insertedIds,
     questions |-> qs]

CreatedMessage(route) ==
    IF route = "generate-mcq" THEN "MCQs generated successfully"
    ELSE "Technical questions generated successfully"

\* The systemPrompt constant of a route.
SystemPromptOf(route) ==
    IF route = "generate-mcq"
    THEN "You are a JSON generator for multiple-choice questions. Respond with a JSON array of questions."
    ELSE IF route = "test-model"
    THEN "You are a helpful assistant. Respond with exactly what the user asks."
    ELSE "You are a JSON generator for technical interview questions. Respond with a JSON array of questions."

\* promptTemplate(...) of a route, shortened to the request values it
\* interpolates; the test prompt of test-model.
PromptOf(r) ==
    IF r.route = "test-model"
    THEN "Say \"test successful\" in exactly these words and nothing else."
    ELSE "Generate " \o NumToString(r.numberOfQuestions) \o " question(s) about "
         \o (IF r.route = "generate-mcq" /\ Given(r.techStack)
             THEN r.techStack[1] ELSE r.topic)
         \o " with " \o r.difficulty \o " difficulty"
         \o (IF r.route \in {"generate-mcq", "technical-question-stub"}
                \/ ~Given(r.techStack)
             THEN "" ELSE " stack " \o r.techStack[1])
         \o (IF r.route \in {"generate-mcq", "technical-question-stub"}
                \/ ~Given(r.questionType)
             THEN "" ELSE " type " \o r.questionType[1])

\* A route that answers an unrecognized selection by falling back on the
\* first provider instead of refusing it.
providerOfDefaulted(r) ==
    IF Len(getProviderFromModel(r.selectedAIModel)) = 0 THEN Some("gemini")
    ELSE getProviderFromModel(r.selectedAIModel)

\* const provider = getProviderFromModel(selectedAIModel), in generateMCQs,
\* generateTechnicalQuestions and the POST of test-model.
providerOf(r) == getProviderFromModel(r.selectedAIModel)

\* The providerConfig a route builds for a selection with a provider.
ProviderConfigOf(r) ==
    [apiKey |-> Trim(r.apiKey),
     provider |-> providerOf(r)[1],
     model |-> getModelFromSelection(r.selectedAIModel)]

\* element[k] = x in a loop body: the element changed, or the TypeError.
Assigned(v) == [ok |-> TRUE, v |-> v, message |-> ""]

Assign(v, k, x) ==
    IF IsObject(v) THEN Assigned(SetProp(v, k, x))
    ELSE [ok |-> FALSE, v |-> v, message |-> SetError(v, k)]

\* One element of the extracted array on its way to the INSERT: the
\* assignments of the POST loop body, then the params of the insert.
Prepare(r, element) ==
    LET t == IF Given(r.techStack)
             THEN Assign(element, "tech_stack", JStr(r.techStack[1]))
             ELSE Assigned(element)
        q == IF r.route # "generate-mcq" /\ t.ok /\ Given(r.questionType)
             THEN Assign(t.v, "question_type", JStr(r.questionType[1]))
             ELSE t
        params == IF r.route = "generate-mcq" THEN MCQParams(q.v)
                  ELSE IF r.route = "technical-question-strict"
                  THEN StrictParams(q.v, r.topic)
                  ELSE PlainParams(q.v)
    IN  IF ~q.ok THEN [ok |-> FALSE, element |-> q.v, row |-> NoRow,
                       message |-> q.message]
        ELSE [ok |-> params.ok, element |-> q.v, row |-> params.row,
              message |-> params.message]

\* Messages of the errors pool.query rejects with.
DbErrorMessages == {"connection terminated unexpectedly"}

\* The ids the placeholder insert of technical-question-stub returns:
\* Math.floor(Math.random() * 1000), three of its values.
RandomIds == {0, 500, 999}

Requests == DOMAIN req

\* resetTechnicalQuestionsSequence() is over: it reads the table and sets
\* the id sequence, leaves the rows alone and swallows its own errors.
ResetSequence(i) ==
    /\ rpc[i] = "received"
    /\ req[i].route \in ResetRoutes
    /\ rpc' = [rpc EXCEPT ![i] = "reset"]
    /\ UNCHANGED <<pc, heap, currentConfig, attemptCount, args, calls, timers,
                   outcome, result, req, questions, pending, ids, response, table>>
    /\ UNCHANGED <<evalVars, topicVars, componentVars>>
    /\ UNCHANGED trace

\* A faulty variant of MissingParameters: the API key is not required.
MissingParametersNoKey(r) ==
    r.topic = "" \/ r.difficulty = "" \/ r.selectedAIModel = ""

\* !topic || !difficulty || !selectedAIModel || !apiKey, the parameter
\* check of the question routes; a field left out of the body and an empty
\* one are the same to it.
MissingParameters(r) ==
    r.topic = "" \/ r.difficulty = "" \/ r.selectedAIModel = "" \/ r.apiKey = ""

\* POST of a question route from the body to the call of the executor:
\* the parameter check, then generateMCQs / generateTechnicalQuestions up
\* to callAIProviderWithFallback.
HandleGenerate(i) ==
    /\ req[i].route \in GenerateRoutes
    /\ rpc[i] = IF req[i].route \in ResetRoutes THEN "reset" ELSE "received"
    /\ LET r == req[i]
       IN  IF MissingParameters(r)
           THEN /\ response' = [response EXCEPT ![i] =
                       Respond(400, "Missing required parameters", "")]
                /\ rpc' = [rpc EXCEPT ![i] = "responded"]
                /\ UNCHANGED <<pc, heap, args>>
           ELSE IF Len(providerOf(r)) = 0
           THEN /\ response' = [response EXCEPT ![i] =
                       InternalError("Unsupported AI model: " \o r.selectedAIModel)]
                /\ rpc' = [rpc EXCEPT ![i] = "responded"]
                /\ UNCHANGED <<pc, heap, args>>
           ELSE /\ heap' = [heap EXCEPT ![i] = <<ProviderConfigOf(r)>>]
                /\ args' = [args EXCEPT ![i] =
                       [prompt |-> PromptOf(r),
                        systemPrompt |-> Some(SystemPromptOf(r.route))]]
                /\ pc' = [pc EXCEPT ![i] = "called"]
                /\ rpc' = [rpc EXCEPT ![i] = "generating"]
                /\ UNCHANGED response
    /\ UNCHANGED <<currentConfig, attemptCount, calls, timers, outcome, result,
                   req, questions, pending, ids, table>>
    /\ UNCHANGED <<evalVars, topicVars, componentVars>>
    /\ UNCHANGED trace

\* The insert loop of a POST from element number Len(insertedIds) + 1 of qs
\* to the next await: the query of the next INSERT, or the response.
InsertNext(i, qs, insertedIds) ==
    IF Len(insertedIds) >= Len(qs)
    THEN /\ response' = [response EXCEPT ![i] =
                Created(CreatedMessage(req[i].route), insertedIds, qs)]
         /\ rpc' = [rpc EXCEPT ![i] = "responded"]
         /\ questions' = [questions EXCEPT ![i] = qs]
         /\ pending' = [pending EXCEPT ![i] = NoRow]
    ELSE LET k == Len(insertedIds) + 1
             prep == Prepare(req[i], qs[k])
         IN  /\ questions' = [questions EXCEPT ![i] = [qs EXCEPT ![k] = prep.element]]
             /\ IF prep.ok
                THEN /\ pending' = [pending EXCEPT ![i] = prep.row]
                     /\ rpc' = [rpc EXCEPT ![i] = "inserting"]
                     /\ UNCHANGED response
                ELSE /\ response' = [response EXCEPT ![i] = InternalError(prep.message)]
                     /\ rpc' = [rpc EXCEPT ![i] = "responded"]
                     /\ pending' = [pending EXCEPT ![i] = NoRow]

\* callAIProviderWithFallback has settled: the rest of generateMCQs /
\* generateTechnicalQuestions (the null check, extractJSONArray), then the
\* insert loop up to its first query, or the catch block of POST.
GenerationEnds(i) ==
    /\ rpc[i] = "generating"
    /\ pc[i] \in {"returned", "thrown"}
    /\ IF pc[i] = "thrown"
       THEN /\ response' = [response EXCEPT ![i] = InternalError(result[i].message)]
            /\ rpc' = [rpc EXCEPT ![i] = "responded"]
            /\ UNCHANGED <<questions, pending, ids>>
       ELSE IF result[i].text = ""
       THEN /\ response' = [response EXCEPT ![i] =
                   InternalError("Failed to generate text from AI provider.")]
            /\ rpc' = [rpc EXCEPT ![i] = "responded"]
            /\ UNCHANGED <<questions, pending, ids>>
       ELSE LET extracted == extractJSONArray(result[i].text)
            IN  IF ~extracted.ok
                THEN /\ response' = [response EXCEPT ![i] =
                            InternalError(extracted.message)]
                     /\ rpc' = [rpc EXCEPT ![i] = "responded"]
                     /\ UNCHANGED <<questions, pending, ids>>
                ELSE IF req[i].route = "technical-question-stub"
                THEN \E given \in [1..Len(extracted.value) -> RandomIds] :
                        /\ ids' = [ids EXCEPT ![i] = given]
                        /\ response' = [response EXCEPT ![i] =
                               Created(CreatedMessage(req[i].route), given,
                                       extracted.value)]
                        /\ rpc' = [rpc EXCEPT ![i] = "responded"]
                        /\ questions' = [questions EXCEPT ![i] = extracted.value]
                        /\ UNCHANGED pending
                ELSE /\ InsertNext(i, extracted.value, <<>>)
                     /\ UNCHANGED ids
    /\ UNCHANGED <<pc, heap, currentConfig, attemptCount, args, calls, timers,
                   outcome, result, req, table>>
    /\ UNCHANGED <<evalVars, topicVars, componentVars>>
    /\ UNCHANGED trace

\* A faulty variant of InsertCompletes: a failed query takes the rows of the
\* request out of the table again.
InsertCompletesAtomic(i) ==
    /\ rpc[i] = "inserting"
    /\ \/ LET id == Len(table) + 1
          IN  /\ table' = Append(table, [id |-> id, row |-> pending[i]])
              /\ ids' = [ids EXCEPT ![i] = Append(@, id)]
              /\ InsertNext(i, questions[i], Append(ids[i], id))
       \/ \E m \in DbErrorMessages :
              /\ response' = [response EXCEPT ![i] = InternalError(m)]
              /\ rpc' = [rpc EXCEPT ![i] = "responded"]
              /\ table' = <<>>
              /\ UNCHANGED <<questions, pending, ids>>
    /\ UNCHANGED <<pc, heap, currentConfig, attemptCount, args, calls, timers,
                   outcome, result, req>>
    /\ UNCHANGED <<evalVars, topicVars, componentVars>>
    /\ UNCHANGED trace

\* The query of the INSERT in flight is over: the row is stored and the
\* loop goes on, or the query failed and insert throws its error.
InsertCompletes(i) ==
    /\ rpc[i] = "inserting"
    /\ \/ LET id == Len(table) + 1
          IN  /\ table' = Append(table, [id |-> id, row |-> pending[i]])
              /\ ids' = [ids EXCEPT ![i] = Append(@, id)]
              /\ InsertNext(i, questions[i], Append(ids[i], id))
       \/ \E m \in DbErrorMessages :
              /\ response' = [response EXCEPT ![i] = InternalError(m)]
              /\ rpc' = [rpc EXCEPT ![i] = "responded"]
              /\ UNCHANGED <<questions, pending, ids, table>>
    /\ UNCHANGED <<pc, heap, currentConfig, attemptCount, args, calls, timers,
                   outcome, result, req>>
    /\ UNCHANGED <<evalVars, topicVars, componentVars>>
    /\ UNCHANGED trace

\* POST of test-model from the body to its one adapter call.
HandleTest(i) ==
    /\ req[i].route = "test-model"
    /\ rpc[i] = "received"
    /\ LET r == req[i]
       IN  IF r.selectedAIModel = "" \/ r.apiKey = ""
           THEN /\ response' = [response EXCEPT ![i] =
                       Respond(400, "Model and API key are required", "")]
                /\ rpc' = [rpc EXCEPT ![i] = "responded"]
                /\ UNCHANGED <<heap, args, calls, trace>>
           ELSE IF Len(providerOf(r)) = 0
           THEN /\ response' = [response EXCEPT ![i] =
                       Respond(400, "Unsupported model: " \o r.selectedAIModel, "")]
                /\ rpc' = [rpc EXCEPT ![i] = "responded"]
                /\ UNCHANGED <<heap, args, calls, trace>>
           ELSE /\ heap' = [heap EXCEPT ![i] = <<ProviderConfigOf(r)>>]
                /\ args' = [args EXCEPT ![i] =
                       [prompt |-> PromptOf(r),
                        systemPrompt |-> Some(SystemPromptOf(r.route))]]
                /\ calls' = [calls EXCEPT ![i] =
                       Append(@, [config |-> ProviderConfigOf(r),
                                  prompt |-> PromptOf(r),
                                  systemPrompt |-> Some(SystemPromptOf(r.route))])]
                /\ rpc' = [rpc EXCEPT ![i] = "testing"]
                /\ trace' = [trace EXCEPT ![i] =
                       Observe(@, CallingLog(ProviderConfigOf(r)))]
                /\ UNCHANGED response
    /\ UNCHANGED <<pc, currentConfig, attemptCount, timers, outcome, result, req,
                   questions, pending, ids, table>>
    /\ UNCHANGED <<evalVars, topicVars, componentVars>>

\* A faulty variant of IsAuthFailure: no error is taken for a rejected key.
IsAuthFailureNever(errorMessage) == FALSE

\* errorMessage.includes('401') || errorMessage.includes('Unauthorized') ||
\* errorMessage.includes('invalid_api_key')
IsAuthFailure(errorMessage) ==
    \/ Includes(errorMessage, "401")
    \/ Includes(errorMessage, "Unauthorized")
    \/ Includes(errorMessage, "invalid_api_key")

\* The adapter call of test-model is over, the SDK having answered r.
TestCompletes(i) ==
    /\ rpc[i] = "testing"
    /\ \E r \in SdkResponses(heap[i][1].provider) :
          LET out == callAIProvider(heap[i][1], r)
              provider == heap[i][1].provider
          IN  /\ trace' = [trace EXCEPT ![i] =
                     Observe(@, <<Answer(r)>> \o AdapterLogs(heap[i][1], r))]
              /\ outcome' = [outcome EXCEPT ![i] =
                     IF out.ok THEN Resolved(out.text, 1)
                     ELSE Rejected(out.message, 1)]
              /\ response' = [response EXCEPT ![i] =
                     IF out.ok
                     THEN IF Trim(out.text) = ""
                          THEN Respond(500, "No response from AI provider. Please check your API key and try again.", "")
                          ELSE Respond(200, "", provider \o " API connection successful")
                     ELSE IF IsAuthFailure(out.message)
                          THEN Respond(401, "Your API key is invalid or expired. Please check your credentials.", "")
                          ELSE Respond(500, out.message, "")]
    /\ rpc' = [rpc EXCEPT ![i] = "responded"]
    /\ UNCHANGED <<pc, heap, currentConfig, attemptCount, args, calls, timers,
                   result, req, questions, pending, ids, table>>
    /\ UNCHANGED <<evalVars, topicVars, componentVars>>

\* The selections a client posts.
Selections == {"mistral", "Mistral-Large", "gemini-1.5-pro", "Google Gemini", "gpt-4"}

\* The bodies a client posts: complete ones, and ones with one required
\* field missing.
Bodies ==
    LET complete ==
            [topic : {"SQL"}, difficulty : {"Easy"}, selectedAIModel : Selections,
             apiKey : {" key-1 "}, numberOfQuestions : {1},
             techStack : {None, Some("postgres, redis")},
             questionType : {None, Some("conceptual")}]
        full == [topic |-> "SQL", difficulty |-> "Easy",
                 selectedAIModel |-> "gpt-4", apiKey |-> "key-1",
                 numberOfQuestions |-> 1, techStack |-> None, questionType |-> None]
    IN  complete \cup {[full EXCEPT !.topic = ""], [full EXCEPT !.difficulty = ""],
                       [full EXCEPT !.selectedAIModel = ""],
                       [full EXCEPT !.apiKey = ""]}

\* A body posted to a route.
Posted(route, b) ==
    [route |-> route, topic |-> b.topic, difficulty |-> b.difficulty,
     selectedAIModel |-> b.selectedAIModel, apiKey |-> b.apiKey,
     numberOfQuestions |-> b.numberOfQuestions, techStack |-> b.techStack,
     questionType |-> b.questionType]

\* One request has been received and the table is empty.
RouteInit ==
    /\ req \in [{1} -> {Posted(route, b) : route \in Routes, b \in Bodies}]
    /\ rpc = [i \in {1} |-> "received"]
    /\ questions = [i \in {1} |-> <<>>]
    /\ pending = [i \in {1} |-> NoRow]
    /\ ids = [i \in {1} |-> <<>>]
    /\ response = [i \in {1} |-> NoResponse]
    /\ table = <<>>
    /\ input = <<>>
    /\ applied = "none"
    /\ output = None
    /\ trace = [i \in {1} |-> None]
    /\ pc = [i \in {1} |-> "idle"]
    /\ heap = [i \in {1} |-> <<>>]
    /\ args = [i \in {1} |-> [prompt |-> "", systemPrompt |-> None]]
    /\ currentConfig = [i \in {1} |-> 0]
    /\ attemptCount = [i \in {1} |-> 0]
    /\ calls = [i \in {1} |-> <<>>]
    /\ timers = [i \in {1} |-> <<>>]
    /\ outcome = [i \in {1} |-> NoOutcome]
    /\ result = [i \in {1} |-> NoResult]
    /\ NoTopics
    /\ NoComponent

RouteNext ==
    \/ \E i \in Requests : ResetSequence(i)
    \/ \E i \in Requests : HandleGenerate(i)
    \/ \E i \in Requests : Enter(i)
    \/ \E i \in Requests : AdapterCompletes(i)
    \/ \E i \in Requests : TimerFires(i)
    \/ \E i \in Requests : GenerationEnds(i)
    \/ \E i \in Requests : InsertCompletes(i)
    \/ \E i \in Requests : HandleTest(i)
    \/ \E i \in Requests : TestCompletes(i)

RouteSpec == RouteInit /\ [][RouteNext]_vars

-----------------------------------------------------------------------------
(* The executor called directly, with any config *)

ApiKeys == {"key-1", "key-2"}

\* A model name that is in no catalog.
UnknownModel == "gpt-4"

ModelNames ==
    UNION {{AVAILABLE_MODELS[p][k] : k \in 1..Len(AVAILABLE_MODELS[p])} : p \in AIProvider} \cup {UnknownModel}

InitialConfigs == [apiKey : ApiKeys, provider : AIProvider, model : ModelNames]

Arguments == [prompt : {"Generate 1 question"}, systemPrompt : {None, Some("sys")}]

\* The state in which the invocations in invs have been called, by a caller
\* that is no route; tr is the trace an observer starts with, None without
\* an observer.
CalledWith(invs, configs, tr) ==
    /\ pc = [i \in invs |-> "called"]
    /\ heap \in [invs -> {<<c>> : c \in configs}]
    /\ args \in [invs -> Arguments]
    /\ currentConfig = [i \in invs |-> 0]
    /\ attemptCount = [i \in invs |-> 0]
    /\ calls = [i \in invs |-> <<>>]
    /\ timers = [i \in invs |-> <<>>]
    /\ outcome = [i \in invs |-> NoOutcome]
    /\ result = [i \in invs |-> NoResult]
    /\ req = [i \in invs |-> NoRequest]
    /\ rpc = [i \in invs |-> "none"]
    /\ questions = [i \in invs |-> <<>>]
    /\ pending = [i \in invs |-> NoRow]
    /\ ids = [i \in invs |-> <<>>]
    /\ response = [i \in invs |-> NoResponse]
    /\ table = <<>>
    /\ input = <<>>
    /\ applied = "none"
    /\ output = None
    /\ trace = [i \in invs |-> tr]
    /\ NoTopics
    /\ NoComponent

\* The invocations in invs have been called and nobody observes them.
Called(invs, configs) == CalledWith(invs, configs, None)

Init == Called({1}, InitialConfigs)

Next ==
    \/ \E i \in Invocations : Enter(i)
    \/ \E i \in Invocations : AdapterCompletes(i)
    \/ \E i \in Invocations : TimerFires(i)

Spec == Init /\ [][Next]_vars

-----------------------------------------------------------------------------
(* Concurrent invocations of the executor *)

\* How many invocations run concurrently.
NumInvocations == 2

\* The configs the concurrent invocations start from: Gemini on the first
\* model of its catalog, Mistral on the middle model of its catalog.
ConcurrentConfigs ==
    {[apiKey |-> "key-1", provider |-> "gemini",
      model |-> AVAILABLE_MODELS["gemini"][1]],
     [apiKey |-> "key-2", provider |-> "mistral",
      model |-> AVAILABLE_MODELS["mistral"][2]]}

ConcInit ==
    /\ Called(1..NumInvocations, ConcurrentConfigs)
    /\ \A i \in 1..NumInvocations : args[i].systemPrompt = Some("sys")

ConcSpec == ConcInit /\ [][Next]_vars

-----------------------------------------------------------------------------
(* Properties of the executor *)

\* The catalog of the provider invocation i was called with.
Catalog(i) == AVAILABLE_MODELS[heap[i][1].provider]

\* The 0-based catalog position of the model of adapter call k.
CallIndex(i, k) == ArrayIndexOf(Catalog(i), calls[i][k].config.model)

\* C1: every attempt of a run is made with the provider of the initial
\* config, and each attempt after the first uses the model at the catalog
\* position immediately after the model of the previous attempt: the index
\* never moves backwards, never skips, and no model is attempted twice.
C1_SameProviderNextModel ==
    \A i \in Invocations :
        \A k \in 1..Len(calls[i]) :
            /\ calls[i][k].config.provider = heap[i][1].provider
            /\ k > 1 => /\ CallIndex(i, k - 1) >= 0
                        /\ CallIndex(i, k) = CallIndex(i, k - 1) + 1
            /\ \A j \in 1..(k - 1) :
                   calls[i][j].config.model # calls[i][k].config.model

\* A run that went through the whole catalog.
C1_Witness ==
    \E i \in Invocations :
        /\ Len(calls[i]) = 3
        /\ CallIndex(i, 1) = 0
        /\ CallIndex(i, 3) = 2

\* C2: one run makes at most len(AVAILABLE_MODELS[provider]) adapter
\* calls, whatever model it starts from and whatever the outcomes are.
C2_AtMostCatalogLengthCalls ==
    \A i \in Invocations :
        /\ Len(calls[i]) <= Len(Catalog(i))
        /\ attemptCount[i] = Len(calls[i])

\* A run that used all its attempts and failed.
C2_Witness ==
    \E i \in Invocations :
        /\ pc[i] = "thrown"
        /\ Len(calls[i]) = Len(Catalog(i))

\* C3 as stated: a run that fails made exactly len(catalog) attempts,
\* for every initial config.
C3_Original ==
    \A i \in Invocations :
        pc[i] = "thrown" => Len(calls[i]) = Len(Catalog(i))

\* C3 as amended: a run that fails made exactly len(catalog) attempts
\* when it started from the first model of the catalog, and fewer when it
\* started from a later model or from a model outside the catalog.
C3_ExactlyLenFromFirstModel ==
    \A i \in Invocations :
        pc[i] = "thrown" =>
            IF heap[i][1].model = Catalog(i)[1]
            THEN Len(calls[i]) = Len(Catalog(i))
            ELSE Len(calls[i]) < Len(Catalog(i))

\* A failed run that started from the first model.
C3_Witness ==
    \E i \in Invocations :
        /\ pc[i] = "thrown"
        /\ heap[i][1].model = Catalog(i)[1]
        /\ Len(timers[i]) = 2

\* C4: the error a failed run throws is the error raised by the last
\* attempt it made, never the error of an earlier attempt and never the
\* generic error of line 88.
C4_ThrowsLastError ==
    \A i \in Invocations :
        pc[i] = "thrown" =>
            /\ outcome[i].kind = "error"
            /\ outcome[i].origin = Len(calls[i])
            /\ result[i] = Thrown(outcome[i])
            /\ result[i].origin = Len(calls[i])
            /\ ~Includes(result[i].message, "Failed to get response from")

\* A run that failed on its second attempt because no next model exists.
C4_Witness ==
    \E i \in Invocations :
        /\ pc[i] = "thrown"
        /\ Len(calls[i]) = 2
        /\ attemptCount[i] < Len(Catalog(i))

\* What of invocation i a step can change.
Local(i) == <<pc[i], heap[i], currentConfig[i], attemptCount[i], calls[i],
              timers[i], outcome[i], result[i]>>

\* C5: the first successful attempt ends the run: the run returns the text
\* of that attempt unchanged, and no adapter call and no delay follows it;
\* a run whose first attempt succeeds made one call and set no delay.
C5_SuccessShortCircuits ==
    /\ [](\A i \in Invocations :
            pc[i] = "returned" =>
                /\ outcome[i] = Resolved(result[i].text, Len(calls[i]))
                /\ result[i].kind = "returned"
                /\ Len(timers[i]) = Len(calls[i]) - 1
                /\ outcome[i].origin = 1 =>
                       Len(calls[i]) = 1 /\ timers[i] = <<>>)
    /\ [][\A i \in Invocations :
            pc[i] = "returned" => Local(i)' = Local(i)]_vars

\* A run whose first attempt succeeded, with a text that trimming changes.
C5_Witness ==
    \E i \in Invocations :
        /\ pc[i] = "returned"
        /\ Len(calls[i]) = 1
        /\ Trim(result[i].text) # result[i].text

\* C6: attempts never overlap: an attempt starts only after the previous
\* one has failed and one delay of 1 second has been set and is over, so
\* a run with n attempts sets n-1 delays, none after the final attempt.
C6_OneDelayBetweenAttempts ==
    /\ [](\A i \in Invocations :
            /\ \A k \in 1..Len(timers[i]) : timers[i][k] = 1000
            /\ Len(timers[i]) =
                   IF pc[i] = "delay" THEN Len(calls[i])
                   ELSE IF pc[i] = "called" THEN 0
                   ELSE Len(calls[i]) - 1)
    /\ [][\A i \in Invocations :
            Len(calls'[i]) > Len(calls[i]) =>
                /\ Len(calls'[i]) = Len(calls[i]) + 1
                /\ pc[i] \in {"called", "delay"}
                /\ pc[i] = "delay" =>
                       /\ outcome[i].kind = "error"
                       /\ outcome[i].origin = Len(calls[i])
                       /\ Len(timers[i]) = Len(calls[i])]_vars

\* A failed run of three attempts and two delays.
C6_Witness ==
    \E i \in Invocations :
        /\ pc[i] = "thrown"
        /\ Len(calls[i]) = 3
        /\ timers[i] = <<1000, 1000>>

\* The config of adapter call k of a run that started from config c: the
\* model k-1 positions after the model of c, everything else as in c.
ExpectedConfig(c, k) ==
    IF k = 1 THEN c
    ELSE [c EXCEPT !.model =
              AVAILABLE_MODELS[c.provider]
                  [ArrayIndexOf(AVAILABLE_MODELS[c.provider], c.model) + k]]

\* C7: concurrent invocations do not interfere: under any interleaving
\* the calls one invocation makes are a function of its own initial config
\* and of how many of its own calls failed, its attempt counter counts its
\* own calls only, and the caller's initialConfig object is never changed.
C7_NoInterference ==
    /\ [](\A i \in Invocations :
            /\ attemptCount[i] = Len(calls[i])
            /\ Len(calls[i]) =
                   Len(timers[i]) + (IF pc[i] \in {"called", "delay"} THEN 0 ELSE 1)
            /\ \A k \in 1..Len(calls[i]) :
                   calls[i][k] = [config |-> ExpectedConfig(heap[i][1], k),
                                  prompt |-> args[i].prompt,
                                  systemPrompt |-> args[i].systemPrompt])
    /\ [][\A i \in Invocations :
            heap'[i][1] = heap[i][1] /\ args'[i] = args[i]]_vars

\* Two invocations of different providers, both on a fallback model.
C7_Witness ==
    \E i, j \in Invocations :
        /\ heap[i][1].provider # heap[j][1].provider
        /\ Len(calls[i]) = 2 /\ pc[i] = "calling"
        /\ Len(calls[j]) = 3 /\ pc[j] = "calling"

\* C8: a failed attempt is retried whatever the kind of its error: when a
\* next model exists and the attempts are not used up, the run moves to
\* the delay with the next model as its config, and the delay ends in the
\* attempt on that model.
C8_EveryFailureRetried ==
    /\ [][\A i \in Invocations :
            (pc[i] = "calling" /\ outcome'[i].kind = "error"
             /\ attemptCount[i] < Len(Catalog(i))
             /\ Len(getNextFallbackModel(CurrentConfig(i).provider,
                                         CurrentConfig(i).model)) > 0)
            => /\ pc'[i] = "delay"
               /\ heap'[i][currentConfig'[i]].model =
                      Catalog(i)[CallIndex(i, Len(calls[i])) + 2]]_vars
    /\ [][\A i \in Invocations :
            pc[i] = "delay" =>
                /\ pc'[i] \in {"delay", "calling"}
                /\ pc'[i] = "calling" =>
                       calls'[i][Len(calls'[i])].config = CurrentConfig(i)]_vars

\* The safety-filter error of the Gemini adapter, being retried.
C8_Witness ==
    \E i \in Invocations :
        /\ pc[i] = "delay"
        /\ outcome[i].message = SafetyMessage

-----------------------------------------------------------------------------
(* Properties of the routes, under RouteSpec *)

\* The request passed the parameter check of its route, so the route went
\* on to resolve the provider of the selection.
PassedParameterCheck(r) ==
    /\ r.selectedAIModel # ""
    /\ r.apiKey # ""
    /\ r.route \in GenerateRoutes => r.topic # "" /\ r.difficulty # ""

\* The selection of the request has no provider.
UnrecognizedSelection(i) ==
    /\ PassedParameterCheck(req[i])
    /\ getProviderFromModel(req[i].selectedAIModel) = None

\* C9: in every route that resolves a provider, when getProviderFromModel
\* returns null the request ends with an 'Unsupported' error, and no adapter
\* call, no fallback attempt and no backoff delay ever takes place for it:
\* the executor is never entered and nothing is inserted.
C9_UnrecognizedSelectionNeverRetried ==
    \A i \in Requests :
        UnrecognizedSelection(i) =>
            /\ calls[i] = <<>>
            /\ timers[i] = <<>>
            /\ pc[i] = "idle"
            /\ attemptCount[i] = 0
            /\ heap[i] = <<>>
            /\ rpc[i] \in {"received", "reset", "responded"}
            /\ rpc[i] = "responded" =>
                  /\ Includes(response[i].error, "Unsupported")
                  /\ Includes(response[i].error, req[i].selectedAIModel)
                  /\ response[i].status =
                        IF req[i].route = "test-model" THEN 400 ELSE 500
                  /\ response[i].ids = <<>>

C9_Witness ==
    \E i \in Requests :
        /\ UnrecognizedSelection(i)
        /\ req[i].route \in GenerateRoutes
        /\ rpc[i] = "responded"
        /\ response[i].error = "Unsupported AI model: gpt-4"
        /\ calls[i] = <<>>

\* The executor returned a text in which extractJSONArray finds no JSON.
ParseFailure(i) ==
    /\ req[i].route \in GenerateRoutes
    /\ pc[i] = "returned"
    /\ result[i].text # ""
    /\ ~extractJSONArray(result[i].text).ok

\* C10: when the executor returned text and extractJSONArray fails on it,
\* no further adapter call is made and no delay is scheduled for that
\* request, nothing is inserted, and the route answers 500 with the message
\* of the extractor's error.
C10_ParseFailureNeverRetried ==
    /\ [](\A i \in Requests :
            ParseFailure(i) =>
                /\ rpc[i] \in {"generating", "responded"}
                /\ ids[i] = <<>>
                /\ rpc[i] = "responded" =>
                      /\ response[i].status = 500
                      /\ response[i].error = extractJSONArray(result[i].text).message)
    /\ [][\A i \in Requests :
            ParseFailure(i) =>
                /\ calls'[i] = calls[i]
                /\ timers'[i] = timers[i]
                /\ pc'[i] = pc[i]
                /\ result'[i] = result[i]
                /\ table' = table
                /\ rpc'[i] = "responded"]_vars

C10_Witness ==
    \E i \in Requests :
        /\ ParseFailure(i)
        /\ rpc[i] = "responded"
        /\ response[i].error = "Failed to parse JSON array from response"
        /\ Len(calls[i]) = 2

-----------------------------------------------------------------------------
(* The resolvers applied to selections *)

RECURSIVE Concat(_)
\* The string made of the parts, in order.
Concat(parts) ==
    IF Len(parts) = 0 THEN "" ELSE parts[1] \o Concat(Tail(parts))

\* No invocation of the executor and no request exists.
Quiescent ==
    /\ pc = <<>>
    /\ heap = <<>>
    /\ args = <<>>
    /\ currentConfig = <<>>
    /\ attemptCount = <<>>
    /\ calls = <<>>
    /\ timers = <<>>
    /\ outcome = <<>>
    /\ result = <<>>
    /\ req = <<>>
    /\ rpc = <<>>
    /\ questions = <<>>
    /\ pending = <<>>
    /\ ids = <<>>
    /\ response = <<>>
    /\ table = <<>>
    /\ trace = <<>>

\* The selections the resolvers are applied to: a name in some letter case,
\* alone or with text before and after it that may name a provider too.
SelectionNames ==
    {"mistral", "MISTRAL", "Mistral-Large", "mistral-medium", "MISTRAL-SMALL",
     "gemini", "Gemini", "GEMINI-1.5-pro", "google", "Google AI", "gpt-4",
     "GPT-4o", "mistral-large mistral-small", "mistral_medium"}

SelectionPrefixes == {"", "Google ", "my-", "Mistral-Medium or "}

SelectionSuffixes == {"", "-latest", " (Gemini)", " via mistral"}

SelectionInputs ==
    {<<p, n, s>> : p \in SelectionPrefixes, n \in SelectionNames,
                   s \in SelectionSuffixes}

\* getProviderFromModel(modelSelection) is called and returns.
ApplyGetProviderFromModel ==
    /\ applied = "none"
    /\ applied' = "getProviderFromModel"
    /\ output' = Some(getProviderFromModel(Concat(input)))
    /\ UNCHANGED <<input, pc, heap, currentConfig, attemptCount, args, calls,
                   timers, outcome, result, routeVars, topicVars,
                   componentVars>>
    /\ UNCHANGED trace

\* getModelFromSelection(modelSelection) is called and returns.
ApplyGetModelFromSelection ==
    /\ applied = "none"
    /\ applied' = "getModelFromSelection"
    /\ output' = Some(getModelFromSelection(Concat(input)))
    /\ UNCHANGED <<input, pc, heap, currentConfig, attemptCount, args, calls,
                   timers, outcome, result, routeVars, topicVars,
                   componentVars>>
    /\ UNCHANGED trace

ResolverInit ==
    /\ Quiescent
    /\ NoTopics
    /\ NoComponent
    /\ input \in SelectionInputs
    /\ applied = "none"
    /\ output = None

ResolverNext ==
    \/ ApplyGetProviderFromModel
    \/ ApplyGetModelFromSelection

ResolverSpec == ResolverInit /\ [][ResolverNext]_vars

\* The selection contains the name in some letter case.
ContainsName(selection, name) == Includes(ToLowerCase(selection), name)

\* C11 as stated: whenever the selection contains the canonical name of a
\* provider, in any letter case, getProviderFromModel returns that provider,
\* also when the selection contains the names of both providers.
C11_Original ==
    applied = "getProviderFromModel" =>
        \A P \in AIProvider :
            ContainsName(Concat(input), P) => output[1] = Some(P)

\* C11: getProviderFromModel returns mistral for every selection that
\* contains "mistral" in any letter case, and returns gemini for every
\* selection that contains "gemini" in any letter case and does not contain
\* "mistral"; a selection that contains both names resolves to mistral.
C11_MistralFirstThenGemini ==
    applied = "getProviderFromModel" =>
        /\ ContainsName(Concat(input), "mistral") => output[1] = Some("mistral")
        /\ (ContainsName(Concat(input), "gemini")
                /\ ~ContainsName(Concat(input), "mistral"))
              => output[1] = Some("gemini")

C11_Witness ==
    /\ applied = "getProviderFromModel"
    /\ ContainsName(Concat(input), "mistral")
    /\ ContainsName(Concat(input), "gemini")
    /\ Concat(input) # ToLowerCase(Concat(input))
    /\ output[1] = Some("mistral")

\* The substring rules of getModelFromSelection in the order of the claim:
\* the text looked for in the lower-cased selection, and the model it gives.
ModelRules ==
    << <<"mistral-small", "mistral-small-latest">>,
       <<"mistral-medium", "mistral-medium-latest">>,
       <<"mistral-large", "mistral-large-latest">>,
       <<"mistral", "mistral-small-latest">>,
       <<"gemini", "gemini-2.5-flash">>,
       <<"google", "gemini-2.5-flash">> >>

\* The rules that match the selection.
MatchingRules(selection) ==
    {k \in DOMAIN ModelRules : ContainsName(selection, ModelRules[k][1])}

\* C12: getModelFromSelection applies its substring rules in a fixed order
\* on the lower-cased selection; the first rule that matches decides the
\* result, and a selection that matches no rule is returned unchanged, in
\* its original letter case.
C12_FirstMatchingRuleDecides ==
    applied = "getModelFromSelection" =>
        LET selection == Concat(input)
            matching == MatchingRules(selection)
        IN  IF matching = {} THEN output[1] = selection
            ELSE \E k \in matching :
                    /\ \A j \in matching : k <= j
                    /\ output[1] = ModelRules[k][2]

C12_Witness ==
    /\ applied = "getModelFromSelection"
    /\ {3, 4, 5} \subseteq MatchingRules(Concat(input))
    /\ 1 \in MatchingRules(Concat(input))
    /\ Concat(input) # ToLowerCase(Concat(input))
    /\ output[1] = "mistral-small-latest"

-----------------------------------------------------------------------------
(* The extractor applied to generated texts *)

\* Well-formed JSON arrays a model answers with.
ArrayTexts ==
    {"[]", "[1, 2]", "[{\"a\":1}]", "[[1],[2]]", "[ {\"q\":\"x]\"}, null ]"}

\* Other answers: one object, no JSON, broken JSON, brackets out of order.
OtherTexts ==
    {"{\"a\":1}", "no json here", "[1, 2", "{\"a\":}", "] [", "", "}{",
     "{\"a\":[1,2]}"}

\* The prose before and after the answer.
ProsePrefixes == {"", "Here you go: ", " \n", "see [1]: ", "{\"note\": 1} "}

ProseSuffixes == {"", " Hope this helps!", "\n ", " (see ] above)", " {end}"}

TextInputs ==
    {<<p, a, s>> : p \in ProsePrefixes, a \in ArrayTexts \cup OtherTexts,
                   s \in ProseSuffixes}

\* extractJSONArray(raw) is called and returns or throws.
ApplyExtractJSONArray ==
    /\ applied = "none"
    /\ applied' = "extractJSONArray"
    /\ output' = Some(extractJSONArray(Concat(input)))
    /\ UNCHANGED <<input, pc, heap, currentConfig, attemptCount, args, calls,
                   timers, outcome, result, routeVars, topicVars,
                   componentVars>>
    /\ UNCHANGED trace

ExtractInit ==
    /\ Quiescent
    /\ NoTopics
    /\ NoComponent
    /\ input \in TextInputs
    /\ applied = "none"
    /\ output = None

ExtractNext == ApplyExtractJSONArray

ExtractSpec == ExtractInit /\ [][ExtractNext]_vars

\* The trimmed text has a '[' and a ']' after it.
HasBracketPair(s) ==
    \E i, j \in 0..(Len(s) - 1) : i < j /\ CharAt(s, i) = "[" /\ CharAt(s, j) = "]"

\* The trimmed text has a '{' and a '}' after it.
HasBracePair(s) ==
    \E i, j \in 0..(Len(s) - 1) : i < j /\ CharAt(s, i) = "{" /\ CharAt(s, j) = "}"

\* The span of s from the first open to the last close.
Span(s, open, close) == Substring(s, IndexOf(s, open), LastIndexOf(s, close) + 1)

\* C13: extractJSONArray returns the JSON parse of the span from the first
\* '[' to the last ']' of the trimmed text; only when there is no such pair
\* does it return a one-element array holding the parse of the span from the
\* first '{' to the last '}'.  Every successful result is an array.
C13_BracketSpanThenBraceSpan ==
    applied = "extractJSONArray" =>
        LET s == Trim(Concat(input))
            selected == IF HasBracketPair(s) THEN Span(s, "[", "]")
                        ELSE IF HasBracePair(s) THEN Span(s, "{", "}")
                        ELSE ""
        IN  /\ output[1].ok =>
                  /\ HasBracketPair(s) \/ HasBracePair(s)
                  /\ JsonParse(selected) # None
                  /\ HasBracketPair(s) => JsonParse(selected)[1].t = "arr"
                  /\ output[1].value =
                        IF HasBracketPair(s) THEN JsonParse(selected)[1].a
                        ELSE <<JsonParse(selected)[1]>>
            /\ JsonParse(selected) # None => output[1].ok

C13_Witness ==
    /\ applied = "extractJSONArray"
    /\ output[1].ok
    /\ ~HasBracketPair(Trim(Concat(input)))
    /\ Includes(Concat(input), "]")
    /\ Len(output[1].value) = 1
    /\ output[1].value[1].t = "obj"

\* The answer in the middle of the input is a well-formed JSON array.
ArrayEmbedded == input[2] \in ArrayTexts

\* C14 as stated: for every prefix, well-formed array text A and suffix,
\* extractJSONArray(prefix + A + suffix) equals JSON.parse(A).
C14_Original ==
    (applied = "extractJSONArray" /\ ArrayEmbedded) =>
        /\ output[1].ok
        /\ output[1].value = JsonParse(input[2])[1].a

\* C14: a well-formed JSON array embedded in prose is recovered, equal to
\* JSON.parse of the array text alone, whenever the prose before it holds
\* no '[' and the prose after it holds no ']'.
C14_RoundTripWithoutStrayBrackets ==
    (applied = "extractJSONArray" /\ ArrayEmbedded
        /\ ~Includes(input[1], "[") /\ ~Includes(input[3], "]")) =>
        /\ output[1].ok
        /\ output[1].value = JsonParse(input[2])[1].a

C14_Witness ==
    /\ applied = "extractJSONArray"
    /\ ArrayEmbedded
    /\ Includes(input[1], "{")
    /\ Includes(input[3], "}")
    /\ Len(input[2]) > 2
    /\ output[1].ok
    /\ output[1].value = JsonParse(input[2])[1].a

\* The span extractJSONArray selects in the trimmed text s, None when s has
\* neither a bracket pair nor a brace pair.
SelectedSpan(s) ==
    IF HasBracketPair(s) THEN Some(Span(s, "[", "]"))
    ELSE IF HasBracePair(s) THEN Some(Span(s, "{", "}"))
    ELSE None

\* C15: extractJSONArray fails, returning nothing, exactly when the text has
\* neither a bracket span nor a brace span or the selected span is not valid
\* JSON; "no json here" always fails, and a bracket span that does not parse
\* fails even when the brace span of the same text is valid JSON.
C15_FailsExactlyWithoutValidSpan ==
    applied = "extractJSONArray" =>
        LET s == Trim(Concat(input))
            selected == SelectedSpan(s)
        IN  /\ ~output[1].ok <=>
                  \/ selected = None
                  \/ JsonParse(selected[1]) = None
            /\ ~output[1].ok =>
                  /\ output[1].value = <<>>
                  /\ output[1].message \in
                        {"Failed to parse JSON array from response",
                         "Failed to parse JSON object from response",
                         "Invalid response format: No JSON array or object found"}
            /\ Includes(s, "no json here") /\ selected = None => ~output[1].ok
            /\ (HasBracketPair(s) /\ JsonParse(Span(s, "[", "]")) = None) =>
                  output[1].message = "Failed to parse JSON array from response"

C15_Witness ==
    /\ applied = "extractJSONArray"
    /\ HasBracketPair(Trim(Concat(input)))
    /\ JsonParse(Span(Trim(Concat(input)), "[", "]")) = None
    /\ HasBracePair(Trim(Concat(input)))
    /\ JsonParse(Span(Trim(Concat(input)), "{", "}")) # None
    /\ ~output[1].ok

-----------------------------------------------------------------------------
(* The adapters applied to SDK answers *)

\* The configs an adapter is called with: each model of each catalog.
AdapterConfigs ==
    UNION {{[apiKey |-> k, provider |-> p, model |-> AVAILABLE_MODELS[p][n]] :
                k \in ApiKeys, n \in DOMAIN AVAILABLE_MODELS[p]} : p \in AIProvider}

\* A config and the answer of the SDK of its provider.
AdapterInputs ==
    UNION {{<<c, r>> : r \in SdkResponses(c.provider)} : c \in AdapterConfigs}

\* callAIProvider(config, prompt, systemPrompt) is called and settles.
ApplyCallAIProvider ==
    /\ applied = "none"
    /\ applied' = "callAIProvider"
    /\ output' = Some(callAIProvider(input[1], input[2]))
    /\ UNCHANGED <<input, pc, heap, currentConfig, attemptCount, args, calls,
                   timers, outcome, result, routeVars, topicVars,
                   componentVars>>
    /\ UNCHANGED trace

AdapterInit ==
    /\ Quiescent
    /\ NoTopics
    /\ NoComponent
    /\ input \in AdapterInputs
    /\ applied = "none"
    /\ output = None

AdapterNext == ApplyCallAIProvider

AdapterSpec == AdapterInit /\ [][AdapterNext]_vars

\* The Gemini SDK answered, and the text of the answer is missing, empty or
\* whitespace only.
GeminiEmptyResult ==
    /\ input[1].provider = "gemini"
    /\ ~input[2].threw
    /\ \/ GeminiExtractText(input[2]) = None
       \/ Trim(GeminiExtractText(input[2])[1]) = ""

\* C16: in the Gemini adapter an empty or whitespace-only result surfaces as
\* the token-limit error when the finish reason is MAX_TOKENS, as the
\* safety-filter error when it is SAFETY and as the plain empty-response
\* error for any other reason; the three errors differ pairwise, and none of
\* them is raised when the text is non-empty: the text is returned.
C16_ThreeEmptyResultErrors ==
    (applied = "callAIProvider" /\ input[1].provider = "gemini"
        /\ ~input[2].threw) =>
        /\ Cardinality({MaxTokensMessage, SafetyMessage, EmptyGeminiMessage}) = 3
        /\ GeminiEmptyResult =>
              /\ ~output[1].ok
              /\ output[1].message =
                    CASE input[2].finishReason = "MAX_TOKENS" ->
                            "Response exceeded max tokens. The prompt or expected output is too large. Try reducing complexity."
                      [] input[2].finishReason = "SAFETY" ->
                            "Response blocked by safety filter. Try rephrasing your prompt."
                      [] OTHER -> "Empty response from Gemini API"
        /\ ~GeminiEmptyResult =>
              /\ output[1].ok
              /\ output[1].text = GeminiExtractText(input[2])[1]

C16_Witness ==
    /\ applied = "callAIProvider"
    /\ GeminiEmptyResult
    /\ input[2].text # ""
    /\ input[2].finishReason = "MAX_TOKENS"
    /\ output[1] = Err(MaxTokensMessage)

\* The kind of an error as its receiver can test it: the class of the error
\* object.
ErrorKind(e) == e.name

\* The Mistral SDK answered r, and the answer has no choices, has empty
\* content or has content without text.
MistralEmptyContent(r) == ~r.threw /\ ~MistralTry(r).ok

\* C17 as stated: in the Mistral adapter a transport failure surfaces to the
\* caller of callAIProvider with a kind different from the kind of every
\* failure for no choices, empty content or no text content.
C17_Original ==
    (applied = "callAIProvider" /\ input[1].provider = "mistral"
        /\ input[2].threw) =>
        \A r \in MistralResponses :
            MistralEmptyContent(r) =>
                ErrorKind(output[1]) # ErrorKind(callAIProvider(input[1], r))

C17_Witness ==
    /\ applied = "callAIProvider"
    /\ input[1].provider = "mistral"
    /\ input[2].threw
    /\ TransportName(input[2].message) = "TypeError"
    /\ output[1] = Err("Mistral API error: fetch failed")
    /\ \E r \in MistralResponses :
          /\ MistralEmptyContent(r)
          /\ callAIProvider(input[1], r) =
                Err("Mistral API error: Empty content in Mistral response")

-----------------------------------------------------------------------------
(* Two observed runs of the executor that differ in the API key only *)

\* The two runs.
Runs == {1, 2}

\* The models the two runs start from: one with a fallback left, one without.
PairModels == {AVAILABLE_MODELS["gemini"][2], AVAILABLE_MODELS["mistral"][3]}

PairInit ==
    /\ CalledWith(Runs, AdapterConfigs, Some(<<>>))
    /\ heap[1][1].apiKey = "key-1"
    /\ heap[2][1].apiKey = "key-2"
    /\ heap[1][1].provider = heap[2][1].provider
    /\ heap[1][1].model = heap[2][1].model
    /\ heap[1][1].model \in PairModels
    /\ args[1] = args[2]
    /\ args[1].systemPrompt = Some("sys")

PairSpec == PairInit /\ [][Next]_vars

\* The answers of the SDK in a trace, in order.
SdkAnswers(tr) == SelectSeq(tr, LAMBDA e : e[1] = "sdk")

\* The lines written to the console in a trace, in order.
ConsoleLines(tr) == SelectSeq(tr, LAMBDA e : e[1] = "log")

\* C18: the API key reaches no console line and no error value: two runs of
\* callAIProviderWithFallback that differ only in config.apiKey and got the
\* same answers from the SDK have written the same lines and, once they
\* have settled, returned the same text or thrown the same error; no line
\* and no error message contains the key of its run.
C18_ApiKeyNeverLoggedNorThrown ==
    /\ \A i, j \in Invocations :
          (SdkAnswers(trace[i][1]) = SdkAnswers(trace[j][1]) /\ pc[i] = pc[j]) =>
              /\ ConsoleLines(trace[i][1]) = ConsoleLines(trace[j][1])
              /\ result[i] = result[j]
    /\ \A i \in Invocations :
          /\ \A k \in 1..Len(trace[i][1]) :
                trace[i][1][k][1] = "log" =>
                    ~Includes(trace[i][1][k][2], heap[i][1].apiKey)
          /\ ~Includes(result[i].message, heap[i][1].apiKey)

C18_Witness ==
    /\ pc[1] = "thrown"
    /\ pc[2] = "thrown"
    /\ Len(calls[1]) = 2
    /\ SdkAnswers(trace[1][1]) = SdkAnswers(trace[2][1])
    /\ calls[1][2].config.apiKey # calls[2][2].config.apiKey
    /\ Len(ConsoleLines(trace[1][1])) > 8
    /\ ConsoleLines(trace[1][1]) = ConsoleLines(trace[2][1])
    /\ result[1] = result[2]

-----------------------------------------------------------------------------
(* Properties of the errors and of the configs of a run *)

\* The config of the last adapter call of invocation i: the failing attempt
\* of a run that has thrown.
LastAttempt(i) == calls[i][Len(calls[i])].config

\* C19 as stated: every failure callAIProviderWithFallback surfaces to its
\* caller carries the provider and the model of the failing attempt and the
\* underlying message; here the error value is searched for each of the
\* three, the provider in any letter case.
C19_Original ==
    \A i \in Invocations :
        (pc[i] = "thrown" /\ Len(calls[i]) > 0) =>
            /\ ContainsName(result[i].message, LastAttempt(i).provider)
            /\ Includes(result[i].message, LastAttempt(i).model)
            /\ Includes(result[i].message, outcome[i].message)

C19_Witness ==
    \E i \in Invocations :
        /\ pc[i] = "thrown"
        /\ Len(calls[i]) = 3
        /\ LastAttempt(i).provider = "mistral"
        /\ result[i].message = "Mistral API error: fetch failed"
        /\ ~Includes(result[i].message, LastAttempt(i).model)

\* C20: falling back changes only the model: every adapter call of a run
\* gets the apiKey and the provider of the initial config and the prompt and
\* systemPrompt of the run; each fallback adds a new config object, which
\* the next call uses, and no config object is ever modified.
C20_FallbackChangesOnlyTheModel ==
    /\ [](\A i \in Invocations :
            /\ \A k \in 1..Len(calls[i]) :
                  /\ calls[i][k].config.apiKey = heap[i][1].apiKey
                  /\ calls[i][k].config.provider = heap[i][1].provider
                  /\ calls[i][k].prompt = args[i].prompt
                  /\ calls[i][k].systemPrompt = args[i].systemPrompt
                  /\ calls[i][k].config = heap[i][k]
            /\ Len(heap[i]) = Len(timers[i]) + 1
            /\ \A j, k \in 1..Len(heap[i]) :
                  j # k => heap[i][j].model # heap[i][k].model)
    /\ [][\A i \in Invocations :
            /\ Len(heap'[i]) >= Len(heap[i])
            /\ \A k \in 1..Len(heap[i]) : heap'[i][k] = heap[i][k]
            /\ args'[i] = args[i]]_vars

C20_Witness ==
    \E i \in Invocations :
        /\ Len(calls[i]) = 3
        /\ Len(heap[i]) = 3
        /\ calls[i][3].config.model # calls[i][1].config.model
        /\ calls[i][3].config.apiKey = calls[i][1].config.apiKey
        /\ heap[i][1] = calls[i][1].config
        /\ args[i].systemPrompt # None

-----------------------------------------------------------------------------
(* Properties of the rows the question routes insert *)

\* Row number k of the table was inserted for element number k of the
\* array of request 1, the only request of a run.
ElementOf(k) == questions[1][k]

\* C21: every row a question route inserts into technical_questions has a
\* difficulty in {Easy, Medium, Hard}, whatever the generated element holds:
\* generate-mcq normalizes the letter case and puts Medium for a missing or
\* unknown value, the strict technical-question route inserts only elements
\* whose normalized difficulty is one of the three.
C21_InsertedDifficultyIsValid ==
    \A k \in 1..Len(table) :
        LET row == table[k].row
            d == GetProp(ElementOf(k), "difficulty")
            known == d.t = "str" /\ Capitalize(d.s) \in {"Easy", "Medium", "Hard"}
        IN  /\ row.difficulty.t = "str"
            /\ row.difficulty.s \in {"Easy", "Medium", "Hard"}
            /\ req[1].route = "generate-mcq" =>
                  row.difficulty.s = IF known THEN Capitalize(d.s) ELSE "Medium"
            /\ req[1].route = "technical-question-strict" =>
                  known /\ row.difficulty.s = Capitalize(d.s)

C21_Witness ==
    /\ req[1].route = "generate-mcq"
    /\ Len(table) = 4
    /\ GetProp(ElementOf(1), "difficulty") = JStr("easy")
    /\ table[1].row.difficulty = JStr("Easy")
    /\ GetProp(ElementOf(3), "difficulty") = JStr("Expert")
    /\ table[3].row.difficulty = JStr("Medium")
    /\ GetProp(ElementOf(4), "difficulty") = JUndefined
    /\ table[4].row.difficulty = JStr("Medium")


\* C22: a POST to /api/generate-mcq whose body lacks topic, difficulty,
\* selectedAIModel or apiKey is answered 400 'Missing required parameters';
\* the executor is never called for it, no adapter call is made and no
\* INSERT is issued, so the table stays as it was.
C22_MissingParameterIsRefused ==
    \A i \in Requests :
        (/\ req[i].route = "generate-mcq"
         /\ \/ req[i].topic = ""
            \/ req[i].difficulty = ""
            \/ req[i].selectedAIModel = ""
            \/ req[i].apiKey = "")
        => /\ rpc[i] \in {"received", "reset", "responded"}
           /\ pc[i] = "idle"
           /\ calls[i] = <<>>
           /\ pending[i] = NoRow
           /\ ids[i] = <<>>
           /\ table = <<>>
           /\ rpc[i] = "responded" =>
                 response[i] = Respond(400, "Missing required parameters", "")

C22_Witness ==
    /\ req[1].route = "generate-mcq"
    /\ req[1].apiKey = ""
    /\ req[1].topic # "" /\ req[1].difficulty # "" /\ req[1].selectedAIModel # ""
    /\ rpc[1] = "responded"
    /\ response[1].status = 400
    /\ calls[1] = <<>>
    /\ table = <<>>


\* C23: on the strict technical-question route a generated question whose
\* topic is not exactly the requested topic is never inserted: every row of
\* the table has the requested topic, and so has the element it was made
\* from; a POST that meets such a question stops there with a 500.
C23_StrictTopicIsTheRequestedOne ==
    \A i \in Requests :
        req[i].route = "technical-question-strict" =>
            /\ \A k \in 1..Len(table) :
                  /\ table[k].row.topic = JStr(req[i].topic)
                  /\ GetProp(ElementOf(k), "topic") = JStr(req[i].topic)
            /\ \A k \in 1..Len(questions[i]) :
                  (/\ GetProp(questions[i][k], "topic") # JStr(req[i].topic)
                   /\ rpc[i] = "responded")
                  => /\ Len(table) < k
                     /\ response[i].status = 500

C23_Witness ==
    /\ req[1].route = "technical-question-strict"
    /\ Len(questions[1]) = 4
    /\ GetProp(questions[1][1], "topic") = JStr(req[1].topic)
    /\ GetProp(questions[1][2], "topic") = JStr("Joins")
    /\ Len(table) = 1
    /\ table[1].row.topic = JStr("SQL")
    /\ rpc[1] = "responded"
    /\ response[1].status = 500
    /\ Includes(response[1].error, "does not match requested topic")


-----------------------------------------------------------------------------
(* The number of attempts of a run that fails *)

\* The 0-based catalog position of the model a run starts on, -1 for a
\* model outside the catalog.
StartIndex(i) == ArrayIndexOf(Catalog(i), heap[i][1].model)

\* C24: a run in which every attempt fails makes len(catalog) minus the
\* catalog position of its starting model adapter calls, and exactly one
\* when the starting model is not in the catalog.  A run started on the
\* last model of the catalog, which is the model the selection 'mistral'
\* resolves to, makes one call and never falls back or waits.
C24_AttemptsFromStartingModel ==
    /\ getModelFromSelection("mistral")
          = AVAILABLE_MODELS["mistral"][Len(AVAILABLE_MODELS["mistral"])]
    /\ \A i \in Invocations :
          /\ pc[i] = "thrown" =>
                Len(calls[i]) = IF StartIndex(i) >= 0
                                THEN Len(Catalog(i)) - StartIndex(i)
                                ELSE 1
          /\ Len(heap[i]) > 0 /\ StartIndex(i) = Len(Catalog(i)) - 1 =>
                /\ Len(calls[i]) <= 1
                /\ Len(heap[i]) = 1
                /\ timers[i] = <<>>

\* A failed run that started on the second model and made two calls, ...
C24_WitnessMiddle ==
    \E i \in Invocations :
        /\ pc[i] = "thrown"
        /\ StartIndex(i) = 1
        /\ Len(calls[i]) = 2

\* ... and a failed run that started outside the catalog and made one.
C24_Witness ==
    \E i \in Invocations :
        /\ pc[i] = "thrown"
        /\ StartIndex(i) = -1
        /\ Len(calls[i]) = 1
        /\ timers[i] = <<>>


-----------------------------------------------------------------------------
(* Agreement of the two resolvers *)

InCatalog(provider, model) ==
    \E k \in DOMAIN AVAILABLE_MODELS[provider] : AVAILABLE_MODELS[provider][k] = model

\* The two resolvers applied to one selection: with a provider the model is
\* in the catalog of that provider, without one the selection comes back
\* as it is.
ResolversAgreeOn(selection, model) ==
    LET provider == getProviderFromModel(selection)
    IN  IF provider # None THEN InCatalog(provider[1], model)
        ELSE model = selection

\* C25: whenever getProviderFromModel returns a provider P for a selection,
\* getModelFromSelection returns a model of AVAILABLE_MODELS[P] for it; the
\* selection is returned unchanged only when there is no provider, and a
\* route then makes no call at all.  Provider and model of every config a
\* route builds or calls the adapter with agree.
C25_ProviderAndModelAgree ==
    /\ applied = "getModelFromSelection" =>
           ResolversAgreeOn(Concat(input), output[1])
    /\ \A i \in Requests :
          LET r == req[i]
          IN  /\ ResolversAgreeOn(r.selectedAIModel,
                                  getModelFromSelection(r.selectedAIModel))
              /\ providerOf(r) = None =>
                    /\ heap[i] = <<>>
                    /\ calls[i] = <<>>
                    /\ pc[i] = "idle"
              /\ \A k \in 1..Len(heap[i]) :
                    /\ heap[i][k].provider = providerOf(r)[1]
                    /\ InCatalog(heap[i][k].provider, heap[i][k].model)
              /\ \A k \in 1..Len(calls[i]) :
                    /\ calls[i][k].config.provider = providerOf(r)[1]
                    /\ InCatalog(calls[i][k].config.provider,
                                 calls[i][k].config.model)

\* A selection that is no model name was resolved and the adapter called.
C25_Witness ==
    \E i \in Requests :
        /\ req[i].selectedAIModel = "Google Gemini"
        /\ Len(calls[i]) > 0
        /\ calls[i][1].config.provider = "gemini"
        /\ calls[i][1].config.model = "gemini-2.5-flash"

\* A selection with a provider whose name is no catalog model was resolved
\* by getModelFromSelection.
C25_ResolverWitness ==
    /\ applied = "getModelFromSelection"
    /\ getProviderFromModel(Concat(input)) = Some("mistral")
    /\ ~InCatalog("mistral", Concat(input))
    /\ InCatalog("mistral", output[1])


-----------------------------------------------------------------------------
(* What a successful adapter call returns *)

FailedToGenerate == "Failed to generate text from AI provider."

\* C26: callAIProvider never resolves with null or with the empty string,
\* and so callAIProviderWithFallback never returns one: an empty answer of
\* the SDK is turned into an error by the adapter.  No route ever answers
\* with 'Failed to generate text from AI provider.'
C26_NeverSucceedsWithEmptyText ==
    /\ applied = "callAIProvider" /\ output[1].ok => Len(output[1].text) > 0
    /\ \A i \in DOMAIN outcome :
          /\ outcome[i].kind = "ok" => Len(outcome[i].text) > 0
          /\ result[i].kind = "returned" => Len(result[i].text) > 0
    /\ \A i \in Requests :
          /\ response[i].error # FailedToGenerate
          /\ rpc[i] = "generating" /\ pc[i] = "returned" =>
                Len(result[i].text) > 0

\* The SDK answered a question route with an empty text on the last model
\* of the catalog, and the route answered with the adapter's error.
C26_Witness ==
    \E i \in Requests :
        /\ req[i].route \in GenerateRoutes
        /\ Len(calls[i]) = 1
        /\ pc[i] = "thrown"
        /\ result[i].message = "Mistral API error: No text content in Mistral response"
        /\ rpc[i] = "responded"
        /\ response[i].status = 500
        /\ response[i].error = result[i].message

\* callAIProvider applied to an empty answer of each provider's SDK.
C26_AdapterWitness ==
    /\ applied = "callAIProvider"
    /\ input[1].provider = "gemini"
    /\ ~input[2].threw /\ ~input[2].textThrows /\ input[2].text = ""
    /\ ~output[1].ok


-----------------------------------------------------------------------------
(* The insert loop of generate-mcq *)

\* C27: the inserts of one POST to /api/generate-mcq are made one after the
\* other, in the order of the extracted questions, and are not undone: at
\* any moment the table holds the rows of the first questions, one per id
\* collected so far.  When the insert of question k fails the response is
\* 500 and the k - 1 rows before it stay in the table.  The response is 201
\* only when every question has its row, and its ids are the ids of those
\* rows in the order of the questions.
C27_InsertsAreSequentialNotAtomic ==
    \A i \in Requests :
        req[i].route = "generate-mcq" =>
            /\ Len(ids[i]) <= Len(questions[i])
            /\ Len(table) = Len(ids[i])
            /\ \A k \in 1..Len(ids[i]) :
                  /\ table[k].id = ids[i][k]
                  /\ k > 1 => ids[i][k - 1] < ids[i][k]
                  /\ table[k].row = MCQParams(questions[i][k]).row
            /\ rpc[i] = "inserting" =>
                  /\ Len(ids[i]) < Len(questions[i])
                  /\ pending[i] = MCQParams(questions[i][Len(ids[i]) + 1]).row
            /\ rpc[i] = "responded" /\ Len(questions[i]) > 0 =>
                  IF Len(ids[i]) = Len(questions[i])
                  THEN /\ response[i].status = 201
                       /\ response[i].ids = ids[i]
                       /\ response[i].questions = questions[i]
                  ELSE response[i].status = 500
            /\ response[i].status = 201 =>
                  /\ Len(response[i].ids) = Len(response[i].questions)
                  /\ Len(table) = Len(response[i].ids)

\* The query of the third of four inserts failed: 500, two rows stay.
C27_Witness ==
    \E i \in Requests :
        /\ req[i].route = "generate-mcq"
        /\ Len(questions[i]) = 4
        /\ rpc[i] = "responded"
        /\ response[i].status = 500
        /\ response[i].error \in DbErrorMessages
        /\ Len(table) = 2
        /\ ids[i] = <<1, 2>>


-----------------------------------------------------------------------------
(* The preflight route *)

\* C28: test-model calls the adapter at most once and never the executor:
\* no fallback, no wait.  It answers 400 without any adapter call when the
\* selection or the key is missing or the selection names no provider, 401
\* when the adapter failed with a message containing '401', 'Unauthorized'
\* or 'invalid_api_key', 500 for every other failure of the adapter and for
\* a blank text, and 200 only when its one call returned a text that is
\* not blank.
C28_PreflightIsOneCall ==
    \A i \in Requests :
        req[i].route = "test-model" =>
            LET r == req[i]
                refused == r.selectedAIModel = "" \/ r.apiKey = ""
                              \/ getProviderFromModel(r.selectedAIModel) = None
                marked(m) == \E w \in {"401", "Unauthorized", "invalid_api_key"} :
                                 Includes(m, w)
            IN  /\ Len(calls[i]) <= 1
                /\ pc[i] = "idle" /\ timers[i] = <<>> /\ attemptCount[i] = 0
                /\ Len(heap[i]) <= 1
                /\ table = <<>>
                /\ refused => calls[i] = <<>>
                /\ rpc[i] = "responded" =>
                      /\ response[i].status \in {200, 400, 401, 500}
                      /\ (response[i].status = 400) = refused
                      /\ ~refused => Len(calls[i]) = 1
                      /\ (response[i].status = 401) =
                            (outcome[i].kind = "error" /\ marked(outcome[i].message))
                      /\ (response[i].status = 200) =
                            (outcome[i].kind = "ok" /\ Trim(outcome[i].text) # "")
                      /\ (response[i].status = 500) =
                            \/ outcome[i].kind = "error" /\ ~marked(outcome[i].message)
                            \/ outcome[i].kind = "ok" /\ Trim(outcome[i].text) = ""
                      /\ outcome[i].kind = "error" /\ ~marked(outcome[i].message) =>
                            response[i].error = outcome[i].message

\* The one call of a preflight returned a blank text: 500.
C28_BlankWitness ==
    \E i \in Requests :
        /\ req[i].route = "test-model"
        /\ outcome[i].kind = "ok"
        /\ outcome[i].text = " "
        /\ response[i].status = 500

\* The one call of a preflight was rejected for its key: 401.
C28_Witness ==
    \E i \in Requests :
        /\ req[i].route = "test-model"
        /\ Len(calls[i]) = 1
        /\ outcome[i].kind = "error"
        /\ Includes(outcome[i].message, "Unauthorized")
        /\ rpc[i] = "responded"
        /\ response[i].status = 401


-----------------------------------------------------------------------------
(* The topics route: app/api/topics/route.ts *)

\* public/topics.json as it is deployed: the base topics and the databases.
TopicsFile ==
    [topics |-> <<"JavaScript", "SQL", "Custom Topic">>,
     databases |-> <<"PostgreSQL">>]

\* array.includes(x)
ArrayIncludes(array, x) == \E k \in 1..Len(array) : array[k] = x

\* The file after ensureCustomTopicsFile(): a missing file is created with
\* an empty list, an existing one is left as it is.
ensureCustomTopicsFile(file) == IF file = None THEN Some(<<>>) ELSE file

\* A faulty variant of topicExists: only the custom topics are looked at.
topicExistsCustomOnly(topicsData, customTopics, trimmedTopic) ==
    ArrayIncludes(customTopics, trimmedTopic)

\* topicsData.topics.includes(trimmedTopic) ||
\* customTopicsData.customTopics.includes(trimmedTopic)
topicExists(topicsData, customTopics, trimmedTopic) ==
    \/ ArrayIncludes(topicsData.topics, trimmedTopic)
    \/ ArrayIncludes(customTopics, trimmedTopic)

\* array.filter((t) => t !== "Custom Topic")
WithoutCustomTopic(array) == SelectSeq(array, LAMBDA t : t # "Custom Topic")

\* The topics list of a response: base topics, custom topics, 'Custom Topic'.
allTopics(topicsData, customTopics) ==
    WithoutCustomTopic(topicsData.topics) \o customTopics \o <<"Custom Topic">>

\* The customTopic values a client posts: strings with and without
\* surrounding whitespace, base topics, the empty string and a number.
CustomTopicInputs ==
    {JStr(s) : s \in {"", "  ", "Rust", " Rust ", "rust", "SQL", " SQL", "Go"}}
    \cup {JNum(7)}

\* The number of POSTs of one run.
MaxPosts == 3

\* One POST to /api/topics with body { customTopic }: from the body to the
\* response, the reads and the write of the file included (they are
\* synchronous, nothing runs between them).
PostTopic(customTopic) ==
    /\ Len(topicPosts) < MaxPosts
    /\ IF ~Truthy(customTopic) \/ customTopic.t # "str"
       THEN /\ topicPosts' = Append(topicPosts,
                   [customTopic |-> customTopic, status |-> 400,
                    message |-> "", error |-> "Invalid custom topic",
                    topics |-> <<>>, before |-> customTopicsFile,
                    after |-> customTopicsFile])
            /\ UNCHANGED customTopicsFile
       ELSE LET trimmedTopic == Trim(customTopic.s)
                customTopics == ensureCustomTopicsFile(customTopicsFile)[1]
                exists == topicExists(TopicsFile, customTopics, trimmedTopic)
                stored == IF exists THEN customTopics
                          ELSE Append(customTopics, trimmedTopic)
            IN  /\ customTopicsFile' = Some(stored)
                /\ topicPosts' = Append(topicPosts,
                       [customTopic |-> customTopic, status |-> 200,
                        message |-> IF exists THEN "Topic already exists"
                                    ELSE "Topic added successfully",
                        error |-> "",
                        topics |-> allTopics(TopicsFile, stored),
                        before |-> customTopicsFile,
                        after |-> Some(stored)])
    /\ UNCHANGED <<pc, heap, currentConfig, attemptCount, args, calls, timers,
                   outcome, result, routeVars, evalVars, trace, componentVars>>

\* Whether no entry of array occurs twice.
NoDuplicates(array) ==
    \A j, k \in 1..Len(array) : array[j] = array[k] => j = k

\* The custom-topics files a run starts from: no file, or the list earlier
\* POSTs have left.
InitialCustomTopics ==
    {None} \cup {Some(l) : l \in {<<>>, <<"Rust">>, <<"Go", "Rust">>,
                                  <<"Kotlin", "Go">>, <<"">>}}

TopicsInit ==
    /\ Quiescent
    /\ input = <<>>
    /\ applied = "none"
    /\ output = None
    /\ NoComponent
    /\ customTopicsFile \in InitialCustomTopics
    /\ NoDuplicates(ensureCustomTopicsFile(customTopicsFile)[1])
    /\ topicPosts = <<>>

TopicsNext == \E customTopic \in CustomTopicInputs : PostTopic(customTopic)

TopicsSpec == TopicsInit /\ [][TopicsNext]_vars


\* The custom topics stored now, and those the run started from.
StoredTopics == ensureCustomTopicsFile(customTopicsFile)[1]

InitialTopics ==
    ensureCustomTopicsFile(IF topicPosts = <<>> THEN customTopicsFile
                           ELSE topicPosts[1].before)[1]

\* Entry number k of the stored topics is the trimmed form of a topic that
\* was posted.
IsTrimmedSubmission(k) ==
    \E j \in 1..Len(topicPosts) :
        /\ topicPosts[j].customTopic.t = "str"
        /\ Trim(topicPosts[j].customTopic.s) = StoredTopics[k]
        /\ topicPosts[j].message = "Topic added successfully"

\* A topic posted a second time is answered 'Topic already exists' and the
\* file is after that POST what it was before it.
SecondPostChangesNothing ==
    \A j, k \in 1..Len(topicPosts) :
        (/\ j < k
         /\ topicPosts[j].status = 200
         /\ topicPosts[k].status = 200
         /\ Trim(topicPosts[j].customTopic.s) = Trim(topicPosts[k].customTopic.s))
        => /\ topicPosts[k].message = "Topic already exists"
           /\ topicPosts[k].after = topicPosts[k].before

-----------------------------------------------------------------------------
(* The model selection form: components/AIModelSelectionFiltered.tsx *)

\* The ids of AI_MODELS_FILTERED, the values of the select.
AI_MODELS_FILTERED == {"mistral", "gemini"}

\* What a user types into the API key field.
ApiKeyInputs == {"", "  ", " key-1 ", "key-2"}

\* The component right after its first render: the initial values of its
\* four state hooks.
Mounted ==
    [mounted |-> TRUE, selectedModel |-> "", apiKey |-> "", error |-> "",
     testingModel |-> FALSE]

\* The response of fetch("/api/hr-questions/test-model"): res.ok, and what
\* res.json() resolves with (the error field of the data, if it has one),
\* None when the body is no JSON and res.json() rejects.
Res(ok, json) == [ok |-> ok, json |-> json]

NoRes == Res(FALSE, None)

Data(error) == [error |-> error]

PreflightResponses ==
    {Res(TRUE, Some(Data(None))),
     Res(TRUE, None),
     Res(FALSE, Some(Data(Some("Your API key is invalid or expired. Please check your credentials.")))),
     Res(FALSE, Some(Data(Some("")))),
     Res(FALSE, Some(Data(None))),
     Res(FALSE, None)}

\* The messages of the errors fetch and res.json() reject with.
FetchErrorMessage == "Failed to fetch"

JsonErrorMessage == "Unexpected token '<', \"<!DOCTYPE \"... is not valid JSON"

\* A faulty variant of Passed: the status of the response is not looked at.
PassedAlways(res) == TRUE

\* The negation of !res.ok
Passed(res) == res.ok

\* data.error || "Failed to validate API key. ..."
ValidationError(data) ==
    IF data.error # None /\ data.error[1] # "" THEN data.error[1]
    ELSE "Failed to validate API key. Please check your credentials and try again."

\* disabled={!selectedModel || apiKey.trim() === "" || testingModel}
ContinueDisabled ==
    \/ component.selectedModel = ""
    \/ Trim(component.apiKey) = ""
    \/ component.testingModel

\* The number of connectivity tests of one run.
MaxPreflights == 2

InFlight(k) == preflights[k].state \in {"fetching", "parsing"}

\* The select changes to model: setSelectedModel, the render, and the
\* effect on [selectedModel], which clears the API key and the error.
SetSelectedModel(model) ==
    /\ component.mounted
    /\ model # component.selectedModel
    /\ component' = [component EXCEPT !.selectedModel = model,
                                      !.apiKey = IF model # "" THEN "" ELSE @,
                                      !.error = IF model # "" THEN "" ELSE @]
    /\ UNCHANGED <<preflights, selections>>
    /\ UNCHANGED <<pc, heap, currentConfig, attemptCount, args, calls, timers,
                   outcome, result, routeVars, evalVars, trace, topicVars>>

\* The API key field, rendered once a model is selected, changes to value.
SetApiKey(value) ==
    /\ component.mounted
    /\ component.selectedModel # ""
    /\ value # component.apiKey
    /\ component' = [component EXCEPT !.apiKey = value]
    /\ UNCHANGED <<preflights, selections>>
    /\ UNCHANGED <<pc, heap, currentConfig, attemptCount, args, calls, timers,
                   outcome, result, routeVars, evalVars, trace, topicVars>>

\* A click on Continue: handleContinue and testModelConnectivity up to the
\* await of fetch.  selectedModel and apiKey are the values of the render
\* the handler belongs to, and stay those for the rest of the handler.
handleContinue ==
    /\ component.mounted
    /\ ~ContinueDisabled
    /\ Len(preflights) < MaxPreflights
    /\ IF component.selectedModel = "" \/ Trim(component.apiKey) = ""
       THEN /\ component' = [component EXCEPT
                   !.error = "Please select a model and enter your API key"]
            /\ UNCHANGED preflights
       ELSE /\ component' = [component EXCEPT !.testingModel = TRUE, !.error = ""]
            /\ preflights' = Append(preflights,
                   [selectedModel |-> component.selectedModel,
                    apiKey |-> component.apiKey,
                    body |-> [selectedAIModel |-> component.selectedModel,
                              apiKey |-> Trim(component.apiKey)],
                    state |-> "fetching", res |-> NoRes, error |-> ""])
    /\ UNCHANGED selections
    /\ UNCHANGED <<pc, heap, currentConfig, attemptCount, args, calls, timers,
                   outcome, result, routeVars, evalVars, trace, topicVars>>

\* testModelConnectivity has failed with message: the setError, the
\* finally block, and handleContinue returning on !isValid.
PreflightFails(k, state, message) ==
    /\ preflights' = [preflights EXCEPT ![k].state = state, ![k].error = message]
    /\ component' = [component EXCEPT !.error = message, !.testingModel = FALSE]
    /\ UNCHANGED selections

\* The fetch of test number k settles: it rejects, or resolves with res and
\* res.json() is awaited.
FetchSettles(k) ==
    /\ preflights[k].state = "fetching"
    /\ \/ PreflightFails(k, "threw", FetchErrorMessage)
       \/ \E res \in PreflightResponses :
              /\ preflights' = [preflights EXCEPT ![k].state = "parsing",
                                                  ![k].res = res]
              /\ UNCHANGED <<component, selections>>
    /\ UNCHANGED <<pc, heap, currentConfig, attemptCount, args, calls, timers,
                   outcome, result, routeVars, evalVars, trace, topicVars>>

\* res.json() of test number k settles: the rest of testModelConnectivity
\* and of handleContinue.  After onModelSelected the page renders its form
\* in place of the component.
JsonSettles(k) ==
    /\ preflights[k].state = "parsing"
    /\ LET res == preflights[k].res
       IN  IF res.json = None
           THEN PreflightFails(k, "threw", JsonErrorMessage)
           ELSE IF ~Passed(res)
           THEN PreflightFails(k, "failed", ValidationError(res.json[1]))
           ELSE /\ preflights' = [preflights EXCEPT ![k].state = "ok"]
                /\ selections' = Append(selections,
                       [model |-> preflights[k].selectedModel,
                        apiKey |-> Trim(preflights[k].apiKey),
                        preflight |-> k])
                /\ component' = [component EXCEPT !.testingModel = FALSE,
                                                  !.mounted = FALSE]
    /\ UNCHANGED <<pc, heap, currentConfig, attemptCount, args, calls, timers,
                   outcome, result, routeVars, evalVars, trace, topicVars>>

ComponentInit ==
    /\ Quiescent
    /\ input = <<>>
    /\ applied = "none"
    /\ output = None
    /\ NoTopics
    /\ component = Mounted
    /\ preflights = <<>>
    /\ selections = <<>>

ComponentNext ==
    \/ \E model \in AI_MODELS_FILTERED : SetSelectedModel(model)
    \/ \E value \in ApiKeyInputs : SetApiKey(value)
    \/ handleContinue
    \/ \E k \in DOMAIN preflights : FetchSettles(k)
    \/ \E k \in DOMAIN preflights : JsonSettles(k)

ComponentSpec == ComponentInit /\ [][ComponentNext]_vars

\* C30: onModelSelected is called only after a connectivity test has come
\* back ok, and that test was made for the model and the trimmed API key
\* that were selected when Continue was pressed and that are passed on.
\* After a test that failed or threw it is not called, and an error is
\* shown.  testingModel is true exactly while a test is in flight: it is
\* false again once the test has finished, whatever its result.
C30_State ==
    /\ \A n \in 1..Len(selections) :
          LET k == selections[n].preflight
          IN  /\ preflights[k].state = "ok"
              /\ preflights[k].res.ok
              /\ preflights[k].body.selectedAIModel = selections[n].model
              /\ preflights[k].body.apiKey = selections[n].apiKey
              /\ selections[n].apiKey # ""
    /\ \A k \in 1..Len(preflights) :
          /\ preflights[k].state \in {"failed", "threw"} =>
                /\ \A n \in 1..Len(selections) : selections[n].preflight # k
                /\ preflights[k].error # ""
          /\ preflights[k].state = "ok" =>
                \E n \in 1..Len(selections) : selections[n].preflight = k
    /\ component.testingModel = (\E k \in 1..Len(preflights) : InFlight(k))

C30_Step ==
    /\ Len(preflights') > Len(preflights) =>
          LET test == preflights'[Len(preflights')]
          IN  /\ test.body.selectedAIModel = component.selectedModel
              /\ test.body.apiKey = Trim(component.apiKey)
              /\ component'.testingModel
    /\ \A k \in 1..Len(preflights) :
          InFlight(k) /\ preflights'[k].state \in {"failed", "threw"} =>
              /\ component'.error # ""
              /\ component'.selectedModel # ""
              /\ ~component'.testingModel
              /\ selections' = selections
    /\ selections' # selections =>
          \E k \in 1..Len(preflights) :
              /\ InFlight(k)
              /\ preflights'[k].state = "ok"
              /\ ~component'.testingModel

C30_PreflightGuardsSelection == [](C30_State) /\ [][C30_Step]_vars

\* A first test failed, a second one passed and the selection was handed on.
C30_Witness ==
    /\ Len(preflights) = 2
    /\ preflights[1].state = "failed"
    /\ preflights[2].state = "ok"
    /\ Len(selections) = 1
    /\ selections[1].apiKey = "key-1"
    /\ ~component.testingModel

\* The user changed the select while the test was in flight: the model
\* handed on is the tested one, not the one the select shows.
C30_StaleWitness ==
    /\ Len(selections) = 1
    /\ selections[1].model # component.selectedModel

=============================================================================
